---------------------------- MODULE Spec2Model ----------------------------
(***************************************************************************)
(* Coding workflow orchestrator of the treehacks2026 backend:              *)
(*   - verify_and_iterate (backend/testing.py), the Fix-Loop;              *)
(*   - CoderOrchestrator.execute_issue_workflow (backend/coder.py);        *)
(*   - the HTTP handlers, generate_implementation_plan and the background  *)
(*     status poller of backend/main.py, with the module-level sandbox     *)
(*     and context caches and the poller's processing set.                 *)
(* Project ids are modelled by 1..NumProjects; a project id and its string *)
(* form str(project_id) denote the same project (the status store and the  *)
(* caches are always addressed by the canonical string form).              *)
(***************************************************************************)
EXTENDS Integers, FiniteSets, Sequences, TLC

(***************************************************************************)
(* Bounds of the model.                                                    *)
(***************************************************************************)
NumProjects == 2
NumWorkers == 1
MaxSandboxes == 2
MaxIter == 3

(***************************************************************************)
(* Program constants.                                                      *)
(***************************************************************************)
ReviewThreshold == 80
WorkflowMaxIterations == 1

Projects == 1..NumProjects
Poller == 0
Workers == 1..NumWorkers
Threads == {Poller} \cup Workers
SandboxIds == 1..MaxSandboxes
NoSandbox == 0

(***************************************************************************)
(* ProjectStatus (models.py).                                              *)
(***************************************************************************)
ProjectStatus ==
    {"pending", "planning", "provisioning", "executing", "completed", "failed",
     "closed"}

(***************************************************************************)
(* Verification outcomes.  A build outcome is "none" (no build step        *)
(* detected), "ok" (returncode 0) or "fail"; a review score is NoReview    *)
(* when the review is skipped, else a score in 0..100.                     *)
(***************************************************************************)
NoReview == -1
BuildOutcomes == {"none", "ok", "fail"}
ReviewScores == {50, 79, 80, 100}
NoReport == [iteration |-> 0, tests |-> FALSE, build |-> "none", review |-> NoReview]

GateAboveThreshold(tests, build, review) ==
    /\ tests
    /\ (build = "none" \/ build = "ok")
    /\ ~(review # NoReview /\ review <= ReviewThreshold)

(***************************************************************************)
(* all_passed of verify_and_iterate.                                       *)
(***************************************************************************)
Gate(tests, build, review) ==
    /\ tests
    /\ (build = "none" \/ build = "ok")
    /\ ~(review # NoReview /\ review < ReviewThreshold)

(***************************************************************************)
(* State of one run of verify_and_iterate.                                 *)
(*   pc        "verify": at the loop head with an iteration left;          *)
(*             "fix": the pass failed, the fix prompt is about to be sent; *)
(*             "exhausted": the for loop ran out; "returned" / "raised".   *)
(*   verifies  verification passes run so far (the loop's iteration count) *)
(*   fixes     fix prompts sent so far                                     *)
(*   passedAt  the iteration (1-based) whose pass satisfied the gate, or 0 *)
(*   last      the outcomes of the latest verification pass                *)
(*   report    the results dict returned                                   *)
(***************************************************************************)
NoLoop ==
    [pc |-> "none", max_iterations |-> 0, skip_review |-> TRUE, verifies |-> 0,
     fixes |-> 0, passedAt |-> 0, last |-> NoReport, success |-> FALSE,
     report |-> NoReport, lint_issues |-> FALSE, type_errors |-> FALSE]

\* A loop head that allows one iteration more than range(max_iterations).
LoopHeadOffByOne(max_iterations, done) ==
    IF done <= max_iterations THEN "verify" ELSE "exhausted"

\* The head of "for iteration in range(max_iterations)": line 587.
LoopHead(max_iterations, done) ==
    IF done < max_iterations THEN "verify" ELSE "exhausted"

ViStart(max_iterations, skip_review) ==
    [NoLoop EXCEPT !.pc = LoopHead(max_iterations, 0),
                   !.max_iterations = max_iterations,
                   !.skip_review = skip_review]

\* One verification pass that keeps looping after a pass that satisfied the gate.
ViVerifyNoEarlyReturn(L, tests, build, review) ==
    LET r == [iteration |-> L.verifies + 1, tests |-> tests, build |-> build,
              review |-> review]
    IN  [L EXCEPT !.verifies = L.verifies + 1, !.last = r, !.pc = "fix",
                  !.passedAt = IF Gate(tests, build, review) /\ L.passedAt = 0
                               THEN L.verifies + 1 ELSE L.passedAt]

\* One verification pass: lines 587-627 of testing.py.
ViVerify(L, tests, build, review) ==
    LET r == [iteration |-> L.verifies + 1, tests |-> tests, build |-> build,
              review |-> review]
    IN  IF Gate(tests, build, review)
        THEN [L EXCEPT !.verifies = L.verifies + 1, !.last = r,
                       !.passedAt = L.verifies + 1, !.pc = "returned",
                       !.success = TRUE, !.report = r]
        ELSE [L EXCEPT !.verifies = L.verifies + 1, !.last = r, !.pc = "fix"]

\* A loop that sends no fix prompt after its last verification pass.
ViFixSkipsLast(L, ok) ==
    IF L.verifies >= L.max_iterations
    THEN [L EXCEPT !.pc = "exhausted"]
    ELSE IF ok
         THEN [L EXCEPT !.fixes = L.fixes + 1,
                        !.pc = LoopHead(L.max_iterations, L.verifies)]
         ELSE [L EXCEPT !.fixes = L.fixes + 1, !.pc = "raised"]

\* The fix prompt of a failed pass: lines 629-635.  ok = FALSE: the callback raises.
ViFix(L, ok) ==
    IF ok
    THEN [L EXCEPT !.fixes = L.fixes + 1,
                   !.pc = LoopHead(L.max_iterations, L.verifies)]
    ELSE [L EXCEPT !.fixes = L.fixes + 1, !.pc = "raised"]

\* After the loop: lines 637-645.  With no pass run, test_result is unbound
\* and the return statement raises UnboundLocalError.
ViExhausted(L) ==
    IF L.verifies = 0
    THEN [L EXCEPT !.pc = "raised"]
    ELSE [L EXCEPT !.pc = "returned", !.success = TRUE,
                   !.report = [L.last EXCEPT !.review = NoReview]]

ReviewChoices(skip_review) == IF skip_review THEN {NoReview} ELSE ReviewScores

(***************************************************************************)
(* Verification passes on an unchanged sandbox.  A working tree is given   *)
(* by what its test command and its build command report; the review score *)
(* is the answer of the language model to the diff, or 50 when the call    *)
(* raises (llm_self_review, testing.py 518-557), and is not a function of  *)
(* the tree.                                                               *)
(***************************************************************************)
MaxPasses == 2
Trees == [tests : BOOLEAN, build : BuildOutcomes]

NoPasses ==
    [pc |-> "idle", skip_review |-> TRUE, tree |-> [tests |-> FALSE, build |-> "none"],
     reports |-> <<>>, gates |-> <<>>]

PassesStart(tree, skip_review) ==
    [NoPasses EXCEPT !.pc = "pass", !.tree = tree, !.skip_review = skip_review]

\* One pass of the loop body (testing.py 587-617) on the tree of P.
PassOnce(P, review) ==
    LET L == ViVerify(ViStart(1, P.skip_review), P.tree.tests, P.tree.build, review)
    IN  [P EXCEPT !.reports = Append(@, L.last),
                  !.gates = Append(@, L.success),
                  !.pc = IF Len(P.reports) + 1 >= MaxPasses THEN "done" ELSE "pass"]


(***************************************************************************)
(* create_sandbox and cleanup_sandbox of the two backends                  *)
(* (modal_sandbox.py, local_sandbox.py), chosen by SANDBOX_MODE.           *)
(*   mode       "modal" or "local"                                         *)
(*   leftover   local: base_dir exists when create_sandbox is called       *)
(*   token      a GitHub token is configured (the form of git_remote)      *)
(*   pc         "create", "setup", "except", "created", "raised",          *)
(*              "cleaned" (cleanup_sandbox returned), "cleanup_raised"     *)
(*   step       the setup command about to run: 1 git clone, 2 git         *)
(*              checkout -b, 3 and 4 git config, 5 gh auth setup-git       *)
(*   allocated  the resource exists: the VM runs / base_dir exists         *)
(*   error      the exception that left create_sandbox                     *)
(*   logged     cleanup_sandbox logged a failure of the underlying call    *)
(***************************************************************************)
SandboxModes == {"modal", "local"}
SetupSteps == 5

NoSb ==
    [mode |-> "modal", leftover |-> FALSE, token |-> FALSE, pc |-> "none",
     step |-> 0, allocated |-> FALSE, failedAt |-> 0, error |-> "none",
     git_remote |-> "none", logged |-> FALSE]

SbStart(mode, leftover, token) ==
    [NoSb EXCEPT !.mode = mode, !.leftover = leftover, !.token = token,
                 !.pc = "create",
                 !.git_remote = IF token THEN "x-access-token" ELSE "anonymous"]

\* The resource is allocated.  Modal: modal.Sandbox.create inside the try
\* block (lines 129-150).  Local: the leftover directory is removed and
\* base_dir is made, before the try block (lines 164-167), so a failure there
\* leaves create_sandbox as it is, not as a SandboxError.
SbAllocate(S, ok) ==
    IF ok
    THEN [S EXCEPT !.pc = "setup", !.step = 1, !.allocated = TRUE]
    ELSE IF S.mode = "modal"
         THEN [S EXCEPT !.pc = "except"]
         ELSE [S EXCEPT !.pc = "raised", !.error = "OSError",
                        !.allocated = S.leftover]

\* One setup command: _exec_in_sandbox / _run_local raise SandboxError on a
\* non-zero exit code.
SbSetup(S, ok) ==
    IF ~ok
    THEN [S EXCEPT !.pc = "except", !.failedAt = S.step]
    ELSE IF S.step < SetupSteps
         THEN [S EXCEPT !.step = S.step + 1]
         ELSE [S EXCEPT !.pc = "created", !.step = 0]

\* The except block of create.  Local (lines 224-229): base_dir is removed,
\* then SandboxError is raised.  Modal (lines 202-204): the error is logged
\* and SandboxError is raised; the sandbox object is not terminated.
SbExcept(S) ==
    IF S.mode = "local"
    THEN [S EXCEPT !.pc = "raised", !.error = "SandboxError", !.allocated = FALSE]
    ELSE [S EXCEPT !.pc = "raised", !.error = "SandboxError"]

\* A cleanup that lets a failure of the underlying call reach the caller.
SbCleanupPropagates(S, ok) ==
    IF ok
    THEN [S EXCEPT !.pc = "cleaned", !.allocated = FALSE]
    ELSE [S EXCEPT !.pc = "cleanup_raised"]

\* cleanup_sandbox.  Modal (lines 206-212): sandbox.terminate() inside
\* try / except Exception.  Local (lines 232-244): the directory removal
\* inside try / except Exception.  ok = FALSE: the underlying call fails.
SbCleanup(S, ok) ==
    IF ok
    THEN [S EXCEPT !.pc = "cleaned", !.allocated = FALSE]
    ELSE [S EXCEPT !.pc = "cleaned", !.logged = (S.mode = "modal")]

(***************************************************************************)
(* One command execution in a sandbox: exec_in_sandbox                     *)
(* (modal_sandbox.py 278-309) or GrokCoderSession.run_prompt               *)
(* (coder.py 102-194).  Both spawn the process with sandbox.exec, read its *)
(* stdout to the end, then call process.wait().                            *)
(*   fn       the function called                                          *)
(*   mode     SANDBOX_MODE                                                 *)
(*   timeout  the function's timeout parameter, in seconds                 *)
(*   hang     the external process never terminates by itself              *)
(*   lines    output lines the process still writes                        *)
(*   rc       the exit code the process ends with                          *)
(*   clock    seconds the caller has been blocked on a silent process      *)
(*   out      lines read by the caller                                     *)
(*   pc       "exec", "stdout", "wait", "returned", "raised"               *)
(***************************************************************************)
ExecTimeout == 300
PromptTimeout == 600
SandboxTtl == 1800
MaxLines == 2

ExecFunctions == {"exec_in_sandbox", "run_prompt"}

NoEx ==
    [fn |-> "none", mode |-> "none", timeout |-> 0, hang |-> FALSE, lines |-> 0,
     rc |-> 0, clock |-> 0, out |-> 0, pc |-> "idle", error |-> "none"]

\* The call: nobody passes a timeout, so the parameter has its default.
ExStart(fn, mode, hang, lines, rc) ==
    [NoEx EXCEPT !.fn = fn, !.mode = mode, !.hang = hang, !.lines = lines,
                 !.rc = rc, !.pc = "exec",
                 !.timeout = IF fn = "exec_in_sandbox" THEN ExecTimeout
                             ELSE PromptTimeout]

\* modal_sandbox.py 302-307, coder.py 183-194: after wait(), exec_in_sandbox
\* raises SandboxError on a non-zero exit code; run_prompt only logs a warning
\* and returns.
ExWait(E) ==
    IF E.fn = "exec_in_sandbox" /\ E.rc # 0
    THEN [E EXCEPT !.pc = "raised", !.error = "SandboxError"]
    ELSE [E EXCEPT !.pc = "returned"]

(***************************************************************************)
(* The verifier's command detection (testing.py 257-392) for one           *)
(* repository.                                                             *)
(*   files          the marker files at the repository root                *)
(*   pkg            what package.json holds: "object" (a JSON object),     *)
(*                  "array" (valid JSON, not an object), "invalid" (not    *)
(*                  JSON, or unreadable), "absent"                         *)
(*   scripts        the keys of its "scripts" object                       *)
(*   test_command, build_command                                           *)
(*                  the overrides of the repo config: "None", "" or a      *)
(*                  command                                                *)
(*   pc             "build", "tests", "gate" within a pass; "raised"       *)
(*   build, tests   the BuildResult (none = TRUE for None) and TestResult  *)
(*                  of the current pass                                    *)
(***************************************************************************)
Markers ==
    {"pytest.ini", "setup.py", "pyproject.toml", "package.json", "go.mod",
     "Cargo.toml"}
PkgKinds == {"object", "array", "invalid"}
Scripts == {"test", "build"}
Overrides == {"None", "", "make check"}

NoBuildResult == [none |-> TRUE, command |-> "None", returncode |-> 0]
NoTestResult == [passed |-> FALSE, framework |-> "None", command |-> "None"]

NoDt ==
    [files |-> {}, pkg |-> "absent", scripts |-> {}, test_command |-> "None",
     build_command |-> "None", pc |-> "idle", build |-> NoBuildResult,
     tests |-> NoTestResult]

DtStart(files, pkg, scripts, test_command, build_command) ==
    [NoDt EXCEPT !.files = files, !.pkg = pkg, !.scripts = scripts,
                 !.test_command = test_command,
                 !.build_command = build_command, !.pc = "build"]

\* file_exists: "test -f name" in the repo directory (lines 270-275, 341-346).
file_exists(D, name) == name \in D.files

\* Python's truth value of an Optional[str].
Truthy(c) == c \notin {"None", ""}

\* "script in pkg.get('scripts', {})" after json.loads of package.json:
\* "yes", "no" (also when reading or parsing failed: the except clause
\* passes), or "raise" (a list has no .get: AttributeError is not caught).
HasScript(D, script) ==
    CASE D.pkg = "array" -> "raise"
      [] D.pkg = "object" /\ script \in D.scripts -> "yes"
      [] OTHER -> "no"

Detected(framework, command) ==
    [framework |-> framework, command |-> command, raised |-> FALSE]
DetectionRaised == [framework |-> "None", command |-> "None", raised |-> TRUE]

\* Lines 280-298: the marker chain of detect_and_run_tests.
TestMarkers(D) ==
    IF \/ file_exists(D, "pytest.ini") \/ file_exists(D, "setup.py")
       \/ file_exists(D, "pyproject.toml")
    THEN Detected("pytest", "pytest -v")
    ELSE IF file_exists(D, "package.json")
    THEN CASE HasScript(D, "test") = "yes" -> Detected("npm", "npm test")
           [] HasScript(D, "test") = "no" -> Detected("None", "None")
           [] OTHER -> DetectionRaised
    ELSE IF file_exists(D, "go.mod") THEN Detected("go", "go test ./...")
    ELSE IF file_exists(D, "Cargo.toml") THEN Detected("cargo", "cargo test")
    ELSE Detected("None", "None")

TestDetectionIgnoresOverride(D) == TestMarkers(D)

\* Lines 277-298.
TestDetection(D) ==
    IF Truthy(D.test_command) THEN Detected("custom", D.test_command)
    ELSE TestMarkers(D)

\* Lines 348-364 of run_build_verification; it records no framework.
BuildDetection(D) ==
    IF Truthy(D.build_command) THEN Detected("None", D.build_command)
    ELSE IF file_exists(D, "package.json")
    THEN CASE HasScript(D, "build") = "yes" -> Detected("None", "npm run build")
           [] HasScript(D, "build") = "no" -> Detected("None", "None")
           [] OTHER -> DetectionRaised
    ELSE IF file_exists(D, "setup.py") THEN Detected("None", "python setup.py build")
    ELSE IF file_exists(D, "go.mod") THEN Detected("None", "go build ./...")
    ELSE IF file_exists(D, "Cargo.toml") THEN Detected("None", "cargo build")
    ELSE Detected("None", "None")

TestOutcomeNoVacuousPass(det, ok) ==
    [passed |-> det.command # "None" /\ ok, framework |-> det.framework,
     command |-> det.command]

\* Lines 300-324: the command's exit decides; with no command the tests
\* count as passed.
TestOutcome(det, ok) ==
    [passed |-> IF det.command = "None" THEN TRUE ELSE ok,
     framework |-> det.framework, command |-> det.command]

\* Lines 366-392: a BuildResult with returncode 0 or 1, or None.
BuildOutcome(det, ok) ==
    IF det.command = "None" THEN NoBuildResult
    ELSE [none |-> FALSE, command |-> det.command,
          returncode |-> IF ok THEN 0 ELSE 1]

\* What the gate reads of a build result (line 613).
BuildSeen(b) ==
    IF b.none THEN "none" ELSE IF b.returncode = 0 THEN "ok" ELSE "fail"

(***************************************************************************)
(* GrokCoderSession.run_prompt (coder.py 102-194) reading the stdout of    *)
(* the grok CLI line by line.  A line is                                   *)
(*   json  "blank" (empty after strip), "invalid" (json.loads raises       *)
(*         JSONDecodeError), "nonobject" (valid JSON that is no object: a  *)
(*         number, string, list, null) or "object"                         *)
(*   type  event.get("type", "unknown"): "thought", "text", "tool_call",   *)
(*         or "other" (a type no branch names)                             *)
(*   data  event.get("data", ""): a string ("a", "b"), an integer ("int")  *)
(*         or a list ("list")                                              *)
(* and the call is                                                         *)
(*   input           every line the process writes                         *)
(*   pending         the lines not read yet                                *)
(*   stdout_lines, assistant_text                                          *)
(*                   the two lists of the function                         *)
(*   pc              "reading", "returned", "raised"                       *)
(*   result          the lines or texts joined with newlines into the      *)
(*                   returned string                                       *)
(***************************************************************************)
MaxPromptLines == 2

EventTypes == {"thought", "text", "tool_call", "other"}
EventData == {"a", "b", "int", "list"}
BlankLine == [json |-> "blank", type |-> "none", data |-> "none"]
InvalidLine == [json |-> "invalid", type |-> "none", data |-> "none"]
NonObjectLine == [json |-> "nonobject", type |-> "none", data |-> "none"]
Lines ==
    {BlankLine, InvalidLine, NonObjectLine}
        \cup {[json |-> "object", type |-> ty, data |-> d] :
                 ty \in EventTypes, d \in EventData}

NoRp ==
    [pc |-> "idle", input |-> << >>, pending |-> << >>, stdout_lines |-> << >>,
     assistant_text |-> << >>, error |-> "none", result |-> << >>]

RpStart(lines) == [NoRp EXCEPT !.pc = "reading", !.input = lines, !.pending = lines]

\* data[:200] works on a string and on a list and raises TypeError on a
\* number.
Sliceable(d) == d # "int"

RpRaise(R, error) == [R EXCEPT !.pc = "raised", !.error = error]

\* Lines 139-181: one turn of "for line in process.stdout".  Only
\* json.JSONDecodeError is caught.
RpLine(R) ==
    LET line == Head(R.pending)
        R0 == [R EXCEPT !.pending = Tail(R.pending)]
        R1 == [R0 EXCEPT !.stdout_lines = Append(R.stdout_lines, line)]
    IN  CASE line.json = "blank" -> R0
          [] line.json = "invalid" -> R1
          [] line.json = "nonobject" -> RpRaise(R1, "AttributeError")
          [] line.json = "object" /\ line.type = "tool_call" -> R1
          [] line.json = "object" /\ line.type = "text" ->
               LET R2 == [R1 EXCEPT !.assistant_text =
                                        Append(R.assistant_text, line.data)]
               IN  IF Sliceable(line.data) THEN R2 ELSE RpRaise(R2, "TypeError")
          [] OTHER ->
               IF Sliceable(line.data) THEN R1 ELSE RpRaise(R1, "TypeError")

RpReturnLastText(R) ==
    IF R.assistant_text = << >>
    THEN [R EXCEPT !.pc = "returned", !.result = R.stdout_lines]
    ELSE IF \E i \in 1..Len(R.assistant_text) : R.assistant_text[i] = "list"
    THEN RpRaise(R, "TypeError")
    ELSE [R EXCEPT !.pc = "returned",
                   !.result = << R.assistant_text[Len(R.assistant_text)] >>]

\* Lines 183-194: after the stream ended: the return code only feeds a
\* warning; the texts joined with newlines are returned, or else the lines.
\* str.join raises TypeError on an item that is no string.
RpReturn(R) ==
    IF R.assistant_text = << >>
    THEN [R EXCEPT !.pc = "returned", !.result = R.stdout_lines]
    ELSE IF \E i \in 1..Len(R.assistant_text) : R.assistant_text[i] = "list"
    THEN RpRaise(R, "TypeError")
    ELSE [R EXCEPT !.pc = "returned", !.result = R.assistant_text]

(***************************************************************************)
(* The mention poller of x-api (src/x-api/main.py 492-599).  Mentions are  *)
(* numbered 1..MaxMentions in the order posted; a tweet id is its number   *)
(* and last_seen_id = 0 stands for None.                                   *)
(*   polling_active, last_seen_id   the module globals                     *)
(*   posted     the mentions posted so far                                 *)
(*   processed  how often process_mention ran for each mention (capped)    *)
(*   threads    the poll_mentions threads ever started: pc, first_poll and *)
(*              the ids lo..hi of the search response being handled        *)
(***************************************************************************)
MaxMentions == 2
MaxPollThreads == 2
Mentions == 1..MaxMentions
PollThreads == 1..MaxPollThreads

NoPollThread == [pc |-> "unborn", first_poll |-> FALSE, lo |-> 1, hi |-> 0]

NoMp ==
    [polling_active |-> FALSE, last_seen_id |-> 0, posted |-> 0,
     processed |-> [m \in Mentions |-> 0],
     threads |-> [i \in PollThreads |-> NoPollThread]]

\* Lines 580-589: /start-polling.
MpStart(M, i) ==
    [M EXCEPT !.polling_active = TRUE, !.threads[i].pc = "lookup"]

\* Lines 592-599: /stop-polling.
MpStop(M) == [M EXCEPT !.polling_active = FALSE]

\* Lines 503-514: the users/me lookup; first_poll = last_seen_id is None.
MpLookup(M, i, ok) ==
    IF ok
    THEN [M EXCEPT !.threads[i].pc = "check",
                   !.threads[i].first_poll = (M.last_seen_id = 0)]
    ELSE [M EXCEPT !.polling_active = FALSE, !.threads[i].pc = "ended"]

\* Line 516: `while polling_active:`.
MpCheck(M, i) ==
    [M EXCEPT !.threads[i].pc = IF M.polling_active THEN "query" ELSE "ended"]

\* Lines 518-545: the search request with since_id = last_seen_id; a 429, a
\* non-200 answer or an exception leads to the sleep and the loop head.
MpQuery(M, i, ok) ==
    IF ok
    THEN [M EXCEPT !.threads[i].pc = "handle",
                   !.threads[i].lo = M.last_seen_id + 1,
                   !.threads[i].hi = M.posted]
    ELSE [M EXCEPT !.threads[i].pc = "sleep"]

\* Lines 547-570: last_seen_id is set to the newest id of the response; the
\* first poll of a thread only records it, a later poll calls process_mention
\* for every tweet of the response.
MpHandle(M, i) ==
    LET T == M.threads[i]
        tweets == T.lo .. T.hi
    IN  [M EXCEPT !.last_seen_id = IF tweets # {} THEN T.hi ELSE @,
                  !.processed = [m \in Mentions |->
                                   IF m \in tweets /\ ~T.first_poll /\ @[m] < 2
                                   THEN @[m] + 1 ELSE @[m]],
                  !.threads[i].first_poll = FALSE,
                  !.threads[i].pc = "sleep"]

\* Line 575: time.sleep(5), then the loop head.
MpSleep(M, i) == [M EXCEPT !.threads[i].pc = "check"]

(***************************************************************************)
(* The Poke notifier (src/backend/poke/main.py).  A transient fault is a   *)
(* query or a notify_poke_assistant call that raises; at most MaxFaults of *)
(* them happen, so the notifier eventually succeeds.                       *)
(*   table        projects.status as stored, "absent" before creation      *)
(*   created      the projects created after the notifier started          *)
(*   window       the projects with created_at > last_checked, in the      *)
(*                order of creation                                        *)
(*   late         the projects created after `now` of the running cycle    *)
(*   tracked      tracked_projects: id -> last known status, "none" when   *)
(*                the key is absent                                        *)
(*   batch        the rows of the running query not yet iterated           *)
(*   new_notified the projects whose new-project notification was sent     *)
(*   sent         status-change notifications sent per project             *)
(*   faults, changes   transient faults and status changes so far          *)
(*   qfault       some query (not a send) has raised                       *)
(***************************************************************************)
MaxPokeProjects == 2
MaxFaults == 1
MaxChanges == 2
PokeProjects == 1..MaxPokeProjects
PokeStatuses == {"pending", "planning", "provisioning"}

NoPk ==
    [pc |-> "idle", table |-> [p \in PokeProjects |-> "absent"], created |-> {},
     window |-> <<>>, late |-> {}, tracked |-> [p \in PokeProjects |-> "none"],
     batch |-> <<>>, new_notified |-> {}, sent |-> [p \in PokeProjects |-> 0],
     faults |-> 0, changes |-> 0, qfault |-> FALSE]

\* seed_tracked_projects (lines 186-196) for the projects existing at startup.
PkStart(existing) ==
    [NoPk EXCEPT !.pc = "top",
                 !.table = [p \in PokeProjects |->
                              IF p \in existing THEN "pending" ELSE "absent"],
                 !.tracked = [p \in PokeProjects |->
                                IF p \in existing THEN "pending" ELSE "none"]]

\* The rows of a query for the ids in seq, with the status stored now.
PkRows(K, seq) == [k \in 1..Len(seq) |-> [id |-> seq[k], status |-> K.table[seq[k]]]]

RECURSIVE PkSeqOf(_)
PkSeqOf(S) ==
    IF S = {} THEN <<>>
    ELSE LET x == CHOOSE y \in S : \A z \in S : y <= z
         IN  <<x>> \o PkSeqOf(S \ {x})

\* Lines 212-214: since = last_checked, now = the current time.
PkTop(K) == [K EXCEPT !.pc = "new_query", !.late = {}]

\* Lines 45-51: the query for created_at > since, oldest first; when it
\* raises, poll_new_projects logs and returns.
PkNewQuery(K, ok) ==
    IF ok
    THEN [K EXCEPT !.pc = "new_rows", !.batch = PkRows(K, K.window)]
    ELSE [K EXCEPT !.pc = "status_query", !.faults = @ + 1, !.qfault = TRUE]

\* Lines 53-79: one row: an id not yet tracked is put into tracked_projects,
\* then the notification is sent; when the send raises, the except block at
\* line 80 ends the loop.
PkNewRow(K, ok) ==
    LET row == Head(K.batch)
    IN  IF K.tracked[row.id] # "none"
        THEN [K EXCEPT !.batch = Tail(@)]
        ELSE IF ok
        THEN [K EXCEPT !.batch = Tail(@), !.tracked[row.id] = row.status,
                       !.new_notified = @ \cup {row.id}]
        ELSE [K EXCEPT !.batch = <<>>, !.tracked[row.id] = row.status,
                       !.pc = "status_query", !.faults = @ + 1]

\* The for loop of poll_new_projects is done.
PkNewDone(K) == [K EXCEPT !.pc = "status_query"]

\* Lines 145-157: nothing tracked: return; else one query for all tracked ids.
PkStatusQuery(K, ok) ==
    LET ids == {p \in PokeProjects : K.tracked[p] # "none"}
    IN  IF ids = {} THEN [K EXCEPT !.pc = "end"]
        ELSE IF ok
        THEN [K EXCEPT !.pc = "status_rows", !.batch = PkRows(K, PkSeqOf(ids))]
        ELSE [K EXCEPT !.pc = "end", !.faults = @ + 1, !.qfault = TRUE]

\* A row handler that records the new status before it sends.
PkStatusRowTracksFirst(K, ok) ==
    LET row == Head(K.batch)
    IN  IF row.status = K.tracked[row.id]
        THEN [K EXCEPT !.batch = Tail(@)]
        ELSE IF ok
        THEN [K EXCEPT !.batch = Tail(@), !.tracked[row.id] = row.status,
                       !.sent[row.id] = @ + 1]
        ELSE [K EXCEPT !.batch = <<>>, !.tracked[row.id] = row.status,
                       !.pc = "end", !.faults = @ + 1]

\* Lines 160-178: one row: an unchanged status is skipped; else the message is
\* built and sent and then tracked_projects is updated; when the send raises,
\* the except block at line 180 ends the loop.
PkStatusRow(K, ok) ==
    LET row == Head(K.batch)
    IN  IF row.status = K.tracked[row.id]
        THEN [K EXCEPT !.batch = Tail(@)]
        ELSE IF ok
        THEN [K EXCEPT !.batch = Tail(@), !.tracked[row.id] = row.status,
                       !.sent[row.id] = @ + 1]
        ELSE [K EXCEPT !.batch = <<>>, !.pc = "end", !.faults = @ + 1]

\* The for loop of poll_status_changes is done.
PkStatusDone(K) == [K EXCEPT !.pc = "end"]

\* Lines 222-223: last_checked = now, then the sleep.
PkEnd(K) ==
    [K EXCEPT !.pc = "top",
              !.window = SelectSeq(@, LAMBDA p : p \in K.late),
              !.late = {}]

\* A project row is inserted by the backend.
PkCreate(K, p) ==
    [K EXCEPT !.table[p] = "pending", !.created = @ \cup {p},
              !.window = Append(@, p),
              !.late = IF K.pc = "top" THEN @ ELSE @ \cup {p}]

\* The status of a project is changed by the backend or the assistant.
PkChange(K, p, s) == [K EXCEPT !.table[p] = s, !.changes = @ + 1]

(***************************************************************************)
(* State.                                                                  *)
(*   status         the status store: projects.status                      *)
(*   hasPlan        the project has a plan row (db.create_plan)            *)
(*   hasIssue       projects.github_issue_url is set                       *)
(*   sandbox_cache  _sandbox_cache: project id -> sandbox, NoSandbox when  *)
(*                  the key is absent                                      *)
(*   context_cache  _context_cache: project id -> repo context             *)
(*   processing     _processing, the poller's guard set                    *)
(*   sandboxes      every sandbox ever created: the project it was created *)
(*                  for and whether it is still alive                      *)
(*   rows           the poller's current query result, not yet iterated    *)
(*   thr            the frame of each thread: the poller thread and the    *)
(*                  threadpool workers serving the synchronous handlers    *)
(*   vi             a stand-alone run of verify_and_iterate                *)
(*   sb             a stand-alone run of create_sandbox / cleanup_sandbox  *)
(*   log_sink       whether the execution_logs insert works ("up") or may  *)
(*                  raise ("down")                                         *)
(*   ex             a stand-alone command execution in a sandbox           *)
(*   dt             a stand-alone verification of one repository: the      *)
(*                  detection of its test and build commands, their runs   *)
(*                  and the fix loop around them (with vi)                 *)
(*   rp             a stand-alone call of GrokCoderSession.run_prompt      *)
(*   passes         two verification passes run one after the other on one *)
(*                  sandbox whose working tree does not change             *)
(*   mp             the mention poller of x-api: its globals and its        *)
(*                  poll_mentions threads                                  *)
(*   pk             the Poke notifier: the projects table as it sees it,   *)
(*                  its tracked_projects dict and its position             *)
(***************************************************************************)
VARIABLES status, hasPlan, hasIssue, sandbox_cache, context_cache,
          processing, sandboxes, rows, thr, vi, sb, log_sink, ex, dt, rp,
          passes, mp, pk

vars == <<status, hasPlan, hasIssue, sandbox_cache, context_cache,
          processing, sandboxes, rows, thr, vi, sb, log_sink, ex, dt, rp,
          passes, mp, pk>>

store == <<status, hasPlan, hasIssue>>
caches == <<sandbox_cache, context_cache>>

\* The variables of the running system, and those of the stand-alone runs of
\* one function.
system == <<store, caches, processing, sandboxes, rows, thr>>
standalone == <<vi, sb, log_sink, ex, dt, rp, passes, mp, pk>>

(***************************************************************************)
(* A repo context is the RepoContext dataclass ("obj") or the plain dict   *)
(* built by generate_implementation_plan ("dict").                         *)
(***************************************************************************)
NoCtx == [owner |-> 0, kind |-> "none"]

\* Locals of one invocation of execute_issue_workflow.
\*   cleanups   calls of cleanup_sandbox made by this invocation
\*   errLogged  an ERROR-level step log was written by this invocation
\*   prompts    prompts sent to the coding session (implementation and fix)
\*   cause      what sent the invocation into its except block: the pc of
\*              the step that raised, or "log" (a _log_step call raised)
\*   logFailed  some _log_step call of this invocation raised
\*   done       the side-effecting steps that returned without raising
\*   session    the status of the coder_sessions record of this invocation
\*              (db_sandbox), "none" before it is inserted
NoWf ==
    [existing |-> NoSandbox, ctx |-> NoCtx, sbx |-> NoSandbox, cleanups |-> 0,
     errLogged |-> FALSE, prompts |-> 0, vi |-> NoLoop, outcome |-> "none",
     cause |-> "none", logFailed |-> FALSE, done |-> {}, session |-> "none"]

\* Locals of one invocation of generate_implementation_plan.
NoGp ==
    [sbx |-> NoSandbox, owns |-> FALSE, keep |-> FALSE, hasCtx |-> FALSE,
     outcome |-> "none"]

IdleFrame ==
    [op |-> "idle", pc |-> "idle", pid |-> 0, sbx |-> NoSandbox, auto |-> FALSE,
     gp |-> NoGp, wf |-> NoWf]

PollerFrame == [IdleFrame EXCEPT !.op = "poller", !.pc = "poll_planning"]

NoSandboxRec == [owner |-> 0, state |-> "free"]

Init ==
    /\ status = [p \in Projects |-> "pending"]
    /\ hasPlan = [p \in Projects |-> FALSE]
    /\ hasIssue = [p \in Projects |-> FALSE]
    /\ sandbox_cache = [p \in Projects |-> NoSandbox]
    /\ context_cache = [p \in Projects |-> NoCtx]
    /\ processing = {}
    /\ sandboxes = [i \in SandboxIds |-> NoSandboxRec]
    /\ rows = {}
    /\ thr = [t \in Threads |-> IF t = Poller THEN PollerFrame ELSE IdleFrame]
    /\ vi = NoLoop
    /\ sb = NoSb
    /\ log_sink = "up"
    /\ ex = NoEx
    /\ dt = NoDt
    /\ rp = NoRp
    /\ passes = NoPasses
    /\ mp = NoMp
    /\ pk = NoPk

(***************************************************************************)
(* Sandbox lifecycle: create_sandbox / cleanup_sandbox.                     *)
(***************************************************************************)
FreeIds == {i \in SandboxIds : sandboxes[i].state = "free"}
NewId == CHOOSE i \in FreeIds : \A j \in FreeIds : i <= j

\* create_sandbox(project_id, repo_config) returning a SandboxContext.
Created(sbs, id, project_id) ==
    [sbs EXCEPT ![id] = [owner |-> project_id, state |-> "alive"]]

\* cleanup_sandbox(sandbox_ctx): never raises.
Cleaned(sbs, id) == [sbs EXCEPT ![id].state = "cleaned"]

\* update_project_status(supabase, project_id, status)
SetStatus(st, project_id, s) == [st EXCEPT ![project_id] = s]

\* pid = str(project_id): the key of both caches.
CacheKeyShared(project_id) == 1

CacheKey(project_id) == project_id

Frame(t, f) == thr' = [thr EXCEPT ![t] = f]

(***************************************************************************)
(* CoderOrchestrator.execute_issue_workflow (coder.py 230-438), run in the *)
(* calling thread t.  Every external call that can raise has a failing     *)
(* outcome (ok = FALSE).                                                   *)
(***************************************************************************)
WfActive == {"wf_start", "wf_sandbox", "wf_context", "wf_executing",
             "wf_implement", "wf_verify", "wf_commit", "wf_push", "wf_pr",
             "wf_record_pr", "wf_complete", "wf_except", "wf_finally"}
WfEnded == {"wf_returned", "wf_raised"}

\* The call execute_issue_workflow(pid, rcid, existing_sandbox_ctx, cached_repo_context).
CallWorkflow(f, pid, existing, ctx) ==
    [f EXCEPT !.pc = "wf_start", !.pid = pid,
              !.wf = [NoWf EXCEPT !.existing = existing, !.ctx = ctx]]

\* _log_step (lines 440-451) calls db.create_execution_log, which raises when
\* the insert fails; nothing catches it.  A step of the try block ends "ok",
\* with a "fault" of the step itself, or with its "log" call raising.
LogResults == IF log_sink = "down" THEN {"ok", "log"} ELSE {"ok"}
StepResults == {"fault"} \cup LogResults

\* A side-effecting step of the try block returned.
Did(f, step) == [f EXCEPT !.wf.done = f.wf.done \cup {step}]

\* An exception raised inside the try block.
Abort(f, r) ==
    [f EXCEPT !.pc = "wf_except", !.wf.cause = IF r = "log" THEN "log" ELSE f.pc,
              !.wf.logFailed = (f.wf.logFailed \/ r = "log")]

\* Lines 250-266: the repo config lookup, before the try block; then the
\* start log and the project lookup.
WfStart(t) ==
    /\ thr[t].pc = "wf_start"
    /\ \E found \in BOOLEAN, r \in StepResults :
         Frame(t, IF ~found
                  THEN [thr[t] EXCEPT !.pc = "wf_raised", !.wf.outcome = "raised"]
                  ELSE IF r = "ok"
                  THEN [thr[t] EXCEPT !.pc = "wf_sandbox"]
                  ELSE Abort(thr[t], r))
    /\ UNCHANGED <<store, caches, processing, sandboxes, rows, standalone>>

\* Lines 268-274, reusing the sandbox handed in.
WfReuseSandbox(t) ==
    /\ thr[t].pc = "wf_sandbox"
    /\ thr[t].wf.existing # NoSandbox
    /\ \E r \in LogResults :
         Frame(t, IF r = "ok"
                  THEN Did([thr[t] EXCEPT !.pc = "wf_context",
                                          !.wf.sbx = thr[t].wf.existing],
                           "sandbox")
                  ELSE Abort(thr[t], r))
    /\ UNCHANGED <<store, caches, processing, sandboxes, rows, standalone>>

\* Lines 272-274, create_sandbox succeeding.
WfCreateSandbox(t) ==
    /\ thr[t].pc = "wf_sandbox"
    /\ thr[t].wf.existing = NoSandbox
    /\ FreeIds # {}
    /\ sandboxes' = Created(sandboxes, NewId, thr[t].pid)
    /\ Frame(t, Did([thr[t] EXCEPT !.pc = "wf_context", !.wf.sbx = NewId],
                     "sandbox"))
    /\ UNCHANGED <<store, caches, processing, rows, standalone>>

\* Lines 272-274, create_sandbox raising SandboxError.
WfCreateSandboxFails(t) ==
    /\ thr[t].pc = "wf_sandbox"
    /\ thr[t].wf.existing = NoSandbox
    /\ \E r \in StepResults \ {"ok"} : Frame(t, Abort(thr[t], r))
    /\ UNCHANGED <<store, caches, processing, sandboxes, rows, standalone>>

\* Lines 276-298: repo context (cached or detected), plan, test cases.
\* generate_test_cases reads attributes of the context: a cached dict makes
\* it raise AttributeError.
WfContext(t) ==
    /\ thr[t].pc = "wf_context"
    /\ \E r \in StepResults :
         LET good == CASE thr[t].wf.ctx.kind = "dict" -> FALSE
                       [] thr[t].wf.ctx.kind = "obj" -> TRUE
                       [] OTHER -> r = "ok"
         IN  Frame(t, IF r = "log" THEN Abort(thr[t], r)
                      ELSE IF good THEN [thr[t] EXCEPT !.pc = "wf_executing"]
                      ELSE Abort(thr[t], "fault"))
    /\ UNCHANGED <<store, caches, processing, sandboxes, rows, standalone>>

\* Lines 300-314: status EXECUTING, the session object, the coder_sessions
\* record inserted with status "active".
WfExecuting(t) ==
    /\ thr[t].pc = "wf_executing"
    /\ \E r \in LogResults :
         IF r = "ok"
         THEN /\ status' = SetStatus(status, thr[t].pid, "executing")
              /\ Frame(t, Did([thr[t] EXCEPT !.pc = "wf_implement",
                                             !.wf.session = "active"], "executing"))
         ELSE /\ UNCHANGED status
              /\ Frame(t, Abort(thr[t], r))
    /\ UNCHANGED <<hasPlan, hasIssue, caches, processing, sandboxes, rows, standalone>>

\* Lines 316-333: the implementation prompt, then the call of
\* verify_and_iterate(max_iterations=1, skip_review=True).
WfImplement(t) ==
    /\ thr[t].pc = "wf_implement"
    /\ \E r \in StepResults :
         Frame(t, CASE r = "ok" ->
                         Did([thr[t] EXCEPT !.pc = "wf_verify",
                                            !.wf.prompts = thr[t].wf.prompts + 1,
                                            !.wf.vi = ViStart(WorkflowMaxIterations, TRUE)],
                             "implement")
                    [] r = "fault" ->
                         Abort([thr[t] EXCEPT !.wf.prompts = thr[t].wf.prompts + 1], r)
                    [] r = "log" -> Abort(thr[t], r))
    /\ UNCHANGED <<store, caches, processing, sandboxes, rows, standalone>>

\* verify_and_iterate inside the workflow: one verification pass.
WfVerify(t) ==
    /\ thr[t].pc = "wf_verify"
    /\ thr[t].wf.vi.pc = "verify"
    /\ \E tests \in BOOLEAN, build \in BuildOutcomes :
         Frame(t, [thr[t] EXCEPT !.wf.vi = ViVerify(thr[t].wf.vi, tests, build, NoReview)])
    /\ UNCHANGED <<store, caches, processing, sandboxes, rows, standalone>>

\* verify_and_iterate inside the workflow: run_grok_fix sends the fix prompt.
WfFix(t) ==
    /\ thr[t].pc = "wf_verify"
    /\ thr[t].wf.vi.pc = "fix"
    /\ \E ok \in BOOLEAN :
         Frame(t, [thr[t] EXCEPT !.wf.vi = ViFix(thr[t].wf.vi, ok),
                                 !.wf.prompts = thr[t].wf.prompts + 1])
    /\ UNCHANGED <<store, caches, processing, sandboxes, rows, standalone>>

\* verify_and_iterate inside the workflow: the loop ran out.
WfLoopEnd(t) ==
    /\ thr[t].pc = "wf_verify"
    /\ thr[t].wf.vi.pc = "exhausted"
    /\ Frame(t, [thr[t] EXCEPT !.wf.vi = ViExhausted(thr[t].wf.vi)])
    /\ UNCHANGED <<store, caches, processing, sandboxes, rows, standalone>>

\* Lines 327-349: the result of verify_and_iterate; `if not success` logs an
\* error, sets FAILED and returns {"status": "failed"}.  The results dict only
\* feeds the text of the PR body, so its content is dropped here.
WfAfterVerify(t) ==
    /\ thr[t].pc = "wf_verify"
    /\ thr[t].wf.vi.pc \in {"returned", "raised"}
    /\ LET f == [thr[t] EXCEPT !.wf.vi.last = NoReport, !.wf.vi.report = NoReport]
       IN  IF thr[t].wf.vi.pc = "raised"
           THEN /\ Frame(t, Abort(f, "fault"))
                /\ UNCHANGED status
           ELSE IF ~thr[t].wf.vi.success
           THEN /\ Frame(t, [f EXCEPT !.pc = "wf_finally", !.wf.errLogged = TRUE,
                                      !.wf.outcome = "failed",
                                      !.wf.session = "failed"])
                /\ status' = SetStatus(status, thr[t].pid, "failed")
           ELSE /\ Frame(t, Did([f EXCEPT !.pc = "wf_commit"], "verify"))
                /\ UNCHANGED status
    /\ UNCHANGED <<hasPlan, hasIssue, caches, processing, sandboxes, rows, standalone>>

\* A step that runs a command in the sandbox and raises when it fails.
WfCommand(t, from, to, step) ==
    /\ thr[t].pc = from
    /\ \E r \in StepResults :
         Frame(t, IF r = "ok" THEN Did([thr[t] EXCEPT !.pc = to], step)
                  ELSE Abort(thr[t], r))
    /\ UNCHANGED <<store, caches, processing, sandboxes, rows, standalone>>

WfCommitFailureIgnored(t) ==
    /\ thr[t].pc = "wf_commit"
    /\ \E r \in StepResults :
         Frame(t, IF r = "ok" THEN Did([thr[t] EXCEPT !.pc = "wf_push"], "commit")
                  ELSE [thr[t] EXCEPT !.pc = "wf_push"])
    /\ UNCHANGED <<store, caches, processing, sandboxes, rows, standalone>>

\* Lines 351-358: commit_changes.
WfCommit(t) == WfCommand(t, "wf_commit", "wf_push", "commit")

\* Lines 360-362: push_branch.
WfPush(t) == WfCommand(t, "wf_push", "wf_pr", "push")

WfCreatePRIgnoresFailure(t) ==
    /\ thr[t].pc = "wf_pr"
    /\ \E r \in StepResults :
         Frame(t, IF r = "ok" THEN Did([thr[t] EXCEPT !.pc = "wf_record_pr"], "pr")
                  ELSE [thr[t] EXCEPT !.pc = "wf_record_pr", !.wf.cause = "wf_pr"])
    /\ UNCHANGED <<store, caches, processing, sandboxes, rows, standalone>>

\* Lines 364-377: create_pull_request; a failure of the gh command leaves it
\* as PRCreationError (github_client.py 220-240).
WfCreatePR(t) == WfCommand(t, "wf_pr", "wf_record_pr", "pr")

\* Lines 379-399: the PR is recorded with status EXECUTING; the
\* coder_sessions record is set to "completed".
WfRecordPR(t) ==
    /\ thr[t].pc = "wf_record_pr"
    /\ status' = SetStatus(status, thr[t].pid, "executing")
    /\ Frame(t, Did([thr[t] EXCEPT !.pc = "wf_complete",
                                   !.wf.session = "completed"], "pr_recorded"))
    /\ UNCHANGED <<hasPlan, hasIssue, caches, processing, sandboxes, rows, standalone>>

\* Lines 401-415: status COMPLETED, the final log, the success result.
WfComplete(t) ==
    /\ thr[t].pc = "wf_complete"
    /\ status' = SetStatus(status, thr[t].pid, "completed")
    /\ \E r \in LogResults :
         Frame(t, IF r = "ok"
                  THEN Did([thr[t] EXCEPT !.pc = "wf_finally",
                                          !.wf.outcome = "success"], "completed")
                  ELSE Abort(Did(thr[t], "completed"), r))
    /\ UNCHANGED <<hasPlan, hasIssue, caches, processing, sandboxes, rows, standalone>>

\* Lines 428-432: `if db_sandbox:` the record is set to "failed".
SessionFailed(session) == IF session = "none" THEN "none" ELSE "failed"

\* Lines 417-433: the except block: ERROR log, status FAILED, the record set
\* to failed, re-raise.  When the ERROR log raises, neither update is reached.
WfExcept(t) ==
    /\ thr[t].pc = "wf_except"
    /\ \E r \in LogResults :
         IF r = "ok"
         THEN /\ status' = SetStatus(status, thr[t].pid, "failed")
              /\ Frame(t, [thr[t] EXCEPT !.pc = "wf_finally", !.wf.errLogged = TRUE,
                                         !.wf.outcome = "raised",
                                         !.wf.session = SessionFailed(@)])
         ELSE /\ UNCHANGED status
              /\ Frame(t, [thr[t] EXCEPT !.pc = "wf_finally", !.wf.logFailed = TRUE,
                                         !.wf.outcome = "raised"])
    /\ UNCHANGED <<hasPlan, hasIssue, caches, processing, sandboxes, rows, standalone>>

\* Lines 435-438: the finally block: the cleanup log, then cleanup_sandbox,
\* if a sandbox is held.  When the log raises, cleanup_sandbox is not reached.
WfFinally(t) ==
    /\ thr[t].pc = "wf_finally"
    /\ IF thr[t].wf.sbx # NoSandbox
       THEN \E r \in LogResults :
              IF r = "ok"
              THEN /\ sandboxes' = Cleaned(sandboxes, thr[t].wf.sbx)
                   /\ Frame(t, [thr[t] EXCEPT !.wf.cleanups = thr[t].wf.cleanups + 1,
                                              !.pc = IF thr[t].wf.outcome = "raised"
                                                     THEN "wf_raised" ELSE "wf_returned"])
              ELSE /\ UNCHANGED sandboxes
                   /\ Frame(t, [thr[t] EXCEPT !.wf.logFailed = TRUE,
                                              !.wf.outcome = "raised",
                                              !.pc = "wf_raised"])
       ELSE /\ UNCHANGED sandboxes
            /\ Frame(t, [thr[t] EXCEPT !.pc = IF thr[t].wf.outcome = "raised"
                                              THEN "wf_raised" ELSE "wf_returned"])
    /\ UNCHANGED <<store, caches, processing, rows, standalone>>

Workflow(t) ==
    \/ WfStart(t) \/ WfReuseSandbox(t) \/ WfCreateSandbox(t)
    \/ WfCreateSandboxFails(t) \/ WfContext(t) \/ WfExecuting(t)
    \/ WfImplement(t) \/ WfVerify(t) \/ WfFix(t) \/ WfLoopEnd(t)
    \/ WfAfterVerify(t) \/ WfCommit(t) \/ WfPush(t) \/ WfCreatePR(t)
    \/ WfRecordPR(t) \/ WfComplete(t) \/ WfExcept(t) \/ WfFinally(t)

(***************************************************************************)
(* generate_implementation_plan (main.py 714-822), run in the calling      *)
(* thread t.                                                               *)
(***************************************************************************)
GpEnded == {"gp_returned", "gp_raised"}

\* The call generate_implementation_plan(pid, repo_context, sandbox_ctx, keep_sandbox).
CallGenPlan(f, sbx, keep, hasCtx) ==
    [f EXCEPT !.pc = "gp_start",
              !.gp = [NoGp EXCEPT !.sbx = sbx, !.keep = keep, !.hasCtx = hasCtx]]

\* Lines 731-754: project and repo lookups (a missing one raises ValueError
\* before the try block), owns_sandbox, the choice of the context source.
GpStart(t) ==
    /\ thr[t].pc = "gp_start"
    /\ \E found \in BOOLEAN :
         Frame(t, IF found
                  THEN [thr[t] EXCEPT !.gp.owns = (thr[t].gp.sbx = NoSandbox),
                                      !.pc = IF thr[t].gp.hasCtx THEN "gp_store"
                                             ELSE IF thr[t].gp.sbx = NoSandbox
                                             THEN "gp_create" ELSE "gp_detect"]
                  ELSE [thr[t] EXCEPT !.pc = "gp_raised", !.gp.outcome = "raised"])
    /\ UNCHANGED <<store, caches, processing, sandboxes, rows, standalone>>

\* Lines 754-761: the temporary sandbox, created.
GpCreateSandbox(t) ==
    /\ thr[t].pc = "gp_create"
    /\ FreeIds # {}
    /\ sandboxes' = Created(sandboxes, NewId, thr[t].pid)
    /\ Frame(t, [thr[t] EXCEPT !.pc = "gp_detect", !.gp.sbx = NewId])
    /\ UNCHANGED <<store, caches, processing, rows, standalone>>

\* Lines 754-761: create_sb raising.
GpCreateSandboxFails(t) ==
    /\ thr[t].pc = "gp_create"
    /\ Frame(t, [thr[t] EXCEPT !.pc = "gp_except"])
    /\ UNCHANGED <<store, caches, processing, sandboxes, rows, standalone>>

\* Lines 763-769: detect_repo_context_for_approval in the sandbox.
GpDetect(t) ==
    /\ thr[t].pc = "gp_detect"
    /\ \E ok \in BOOLEAN :
         Frame(t, [thr[t] EXCEPT !.pc = IF ok THEN "gp_store" ELSE "gp_except"])
    /\ UNCHANGED <<store, caches, processing, sandboxes, rows, standalone>>

\* Lines 776-808: the plan text, the plan row, plan_id and status PROVISIONING.
GpStore(t) ==
    /\ thr[t].pc = "gp_store"
    /\ \E ok \in BOOLEAN :
         IF ok
         THEN /\ hasPlan' = [hasPlan EXCEPT ![thr[t].pid] = TRUE]
              /\ status' = SetStatus(status, thr[t].pid, "provisioning")
              /\ Frame(t, [thr[t] EXCEPT !.pc = "gp_finally", !.gp.outcome = "ok"])
         ELSE /\ Frame(t, [thr[t] EXCEPT !.pc = "gp_except"])
              /\ UNCHANGED <<hasPlan, status>>
    /\ UNCHANGED <<hasIssue, caches, processing, sandboxes, rows, standalone>>

\* Lines 810-813: the except block: status FAILED, re-raise.
GpExcept(t) ==
    /\ thr[t].pc = "gp_except"
    /\ status' = SetStatus(status, thr[t].pid, "failed")
    /\ Frame(t, [thr[t] EXCEPT !.pc = "gp_finally", !.gp.outcome = "raised"])
    /\ UNCHANGED <<hasPlan, hasIssue, caches, processing, sandboxes, rows, standalone>>

\* Lines 815-822: the finally block.
GpFinally(t) ==
    /\ thr[t].pc = "gp_finally"
    /\ sandboxes' = IF thr[t].gp.sbx # NoSandbox /\ thr[t].gp.owns /\ ~thr[t].gp.keep
                    THEN Cleaned(sandboxes, thr[t].gp.sbx) ELSE sandboxes
    /\ Frame(t, [thr[t] EXCEPT !.pc = IF thr[t].gp.outcome = "raised"
                                      THEN "gp_raised" ELSE "gp_returned"])
    /\ UNCHANGED <<store, caches, processing, rows, standalone>>

GenPlan(t) ==
    \/ GpStart(t) \/ GpCreateSandbox(t) \/ GpCreateSandboxFails(t)
    \/ GpDetect(t) \/ GpStore(t) \/ GpExcept(t) \/ GpFinally(t)

(***************************************************************************)
(* POST /api/projects/{id}/generate-plan (main.py 129-153).                *)
(***************************************************************************)
GeneratePlanEndpoint(t, p) ==
    /\ thr[t].op = "idle"
    /\ status' = SetStatus(status, p, "planning")
    /\ Frame(t, CallGenPlan([IdleFrame EXCEPT !.op = "generate_plan", !.pid = p],
                            NoSandbox, FALSE, FALSE))
    /\ UNCHANGED <<hasPlan, hasIssue, caches, processing, sandboxes, rows, standalone>>

GeneratePlanEndpointReturn(t) ==
    /\ thr[t].op = "generate_plan"
    /\ thr[t].pc \in GpEnded
    /\ Frame(t, IdleFrame)
    /\ UNCHANGED <<store, caches, processing, sandboxes, rows, standalone>>

(***************************************************************************)
(* POST /api/projects/{id}/approve (main.py 305-469).                      *)
(***************************************************************************)
\* Lines 315-344: the request is served only for a pending project.
ApproveProject(t, p, auto) ==
    /\ thr[t].op = "idle"
    /\ status[p] = "pending"
    /\ Frame(t, [IdleFrame EXCEPT !.op = "approve_project", !.pid = p,
                                  !.pc = "ap_create", !.auto = auto])
    /\ UNCHANGED <<store, caches, processing, sandboxes, rows, standalone>>

\* Line 346: create_sb succeeding.
ApCreateSandbox(t) ==
    /\ thr[t].pc = "ap_create"
    /\ FreeIds # {}
    /\ sandboxes' = Created(sandboxes, NewId, thr[t].pid)
    /\ Frame(t, [thr[t] EXCEPT !.pc = "ap_detect", !.sbx = NewId])
    /\ UNCHANGED <<store, caches, processing, rows, standalone>>

\* Line 346: create_sb raising.
ApCreateSandboxFails(t) ==
    /\ thr[t].pc = "ap_create"
    /\ Frame(t, [thr[t] EXCEPT !.pc = "ap_except"])
    /\ UNCHANGED <<store, caches, processing, sandboxes, rows, standalone>>

\* Lines 347-393: context detection, enrichment, issue creation.
ApDetectAndIssue(t) ==
    /\ thr[t].pc = "ap_detect"
    /\ \E ok \in BOOLEAN :
         Frame(t, [thr[t] EXCEPT !.pc = IF ok THEN "ap_planning" ELSE "ap_except"])
    /\ UNCHANGED <<store, caches, processing, sandboxes, rows, standalone>>

\* Lines 395-408: status PLANNING with the issue number and url.
ApSetPlanning(t) ==
    /\ thr[t].pc = "ap_planning"
    /\ status' = SetStatus(status, thr[t].pid, "planning")
    /\ hasIssue' = [hasIssue EXCEPT ![thr[t].pid] = TRUE]
    /\ Frame(t, [thr[t] EXCEPT !.pc = "ap_cache"])
    /\ UNCHANGED <<hasPlan, caches, processing, sandboxes, rows, standalone>>

\* Lines 410-428: the sandbox and the RepoContext are parked in the caches,
\* the local reference is dropped, the plan is generated if asked for.
ApCache(t) ==
    /\ thr[t].pc = "ap_cache"
    /\ sandbox_cache' = [sandbox_cache EXCEPT ![CacheKey(thr[t].pid)] = thr[t].sbx]
    /\ context_cache' = [context_cache EXCEPT ![CacheKey(thr[t].pid)] =
                             [owner |-> thr[t].pid, kind |-> "obj"]]
    /\ Frame(t, IF thr[t].auto
                THEN CallGenPlan([thr[t] EXCEPT !.sbx = NoSandbox],
                                 NoSandbox, FALSE, TRUE)
                ELSE IdleFrame)
    /\ UNCHANGED <<store, processing, sandboxes, rows, standalone>>

\* Lines 424-445: the plan generation returned or raised (caught, logged).
ApPlanReturn(t) ==
    /\ thr[t].op = "approve_project"
    /\ thr[t].pc \in GpEnded
    /\ Frame(t, IdleFrame)
    /\ UNCHANGED <<store, caches, processing, sandboxes, rows, standalone>>

\* Lines 449-460: the except block: the cached sandbox of the project is
\* popped and cleaned up.
ApExcept(t) ==
    /\ thr[t].pc = "ap_except"
    /\ LET stale == sandbox_cache[CacheKey(thr[t].pid)]
       IN  /\ sandbox_cache' = [sandbox_cache EXCEPT ![CacheKey(thr[t].pid)] = NoSandbox]
           /\ context_cache' = [context_cache EXCEPT ![CacheKey(thr[t].pid)] = NoCtx]
           /\ sandboxes' = IF stale # NoSandbox THEN Cleaned(sandboxes, stale)
                           ELSE sandboxes
    /\ Frame(t, [thr[t] EXCEPT !.pc = "ap_finally"])
    /\ UNCHANGED <<store, processing, rows, standalone>>

\* Lines 462-469: the finally block.
ApFinally(t) ==
    /\ thr[t].pc = "ap_finally"
    /\ sandboxes' = IF thr[t].sbx # NoSandbox THEN Cleaned(sandboxes, thr[t].sbx)
                    ELSE sandboxes
    /\ Frame(t, IdleFrame)
    /\ UNCHANGED <<store, caches, processing, rows, standalone>>

ApproveProjectSteps(t) ==
    \/ ApCreateSandbox(t) \/ ApCreateSandboxFails(t) \/ ApDetectAndIssue(t)
    \/ ApSetPlanning(t) \/ ApCache(t) \/ ApPlanReturn(t) \/ ApExcept(t)
    \/ ApFinally(t)

(***************************************************************************)
(* POST /api/plans/{id}/approve (main.py 234-302), for a plan of project p.*)
(***************************************************************************)
\* Lines 243-263: the plan is approved, the project is set to EXECUTING.
ApprovePlan(t, p) ==
    /\ thr[t].op = "idle"
    /\ hasPlan[p]
    /\ status' = SetStatus(status, p, "executing")
    /\ Frame(t, [IdleFrame EXCEPT !.op = "approve_plan", !.pid = p,
                                  !.pc = "apl_trigger"])
    /\ UNCHANGED <<hasPlan, hasIssue, caches, processing, sandboxes, rows, standalone>>

\* Lines 265-283: both caches are popped and the workflow is called.
ApprovePlanTrigger(t) ==
    /\ thr[t].pc = "apl_trigger"
    /\ sandbox_cache' = [sandbox_cache EXCEPT ![CacheKey(thr[t].pid)] = NoSandbox]
    /\ context_cache' = [context_cache EXCEPT ![CacheKey(thr[t].pid)] = NoCtx]
    /\ Frame(t, CallWorkflow(thr[t], thr[t].pid,
                             sandbox_cache[CacheKey(thr[t].pid)],
                             context_cache[CacheKey(thr[t].pid)]))
    /\ UNCHANGED <<store, processing, sandboxes, rows, standalone>>

\* Lines 284-296: the response, whether the workflow returned or raised.
ApprovePlanReturn(t) ==
    /\ thr[t].op = "approve_plan"
    /\ thr[t].pc \in WfEnded
    /\ Frame(t, IdleFrame)
    /\ UNCHANGED <<store, caches, processing, sandboxes, rows, standalone>>

(***************************************************************************)
(* POST /api/coder/execute (main.py 551-604).                              *)
(***************************************************************************)
\* Lines 555-587: served only for an executing project with an issue.
ExecuteCoder(t, p) ==
    /\ thr[t].op = "idle"
    /\ status[p] = "executing"
    /\ hasIssue[p]
    /\ Frame(t, CallWorkflow([IdleFrame EXCEPT !.op = "execute_coder"], p,
                             NoSandbox, NoCtx))
    /\ UNCHANGED <<store, caches, processing, sandboxes, rows, standalone>>

\* Lines 588-598: the response.
ExecuteCoderReturn(t) ==
    /\ thr[t].op = "execute_coder"
    /\ thr[t].pc \in WfEnded
    /\ Frame(t, IdleFrame)
    /\ UNCHANGED <<store, caches, processing, sandboxes, rows, standalone>>

(***************************************************************************)
(* _poll_status_changes (main.py 829-915), the single poller thread.       *)
(***************************************************************************)
PollerLoop(f, pc) == [PollerFrame EXCEPT !.pc = pc]

\* Lines 838-845: the query for planning projects.
PollPlanning ==
    /\ thr[Poller].pc = "poll_planning"
    /\ rows' = {p \in Projects : status[p] = "planning"}
    /\ Frame(Poller, PollerLoop(thr[Poller], "poll_plan_loop"))
    /\ UNCHANGED <<store, caches, processing, sandboxes, standalone>>

\* Lines 846-851: the next row; one already in _processing is skipped.
PollPlanNext ==
    /\ thr[Poller].pc = "poll_plan_loop"
    /\ \E pid \in rows :
         /\ rows' = rows \ {pid}
         /\ IF pid \in processing
            THEN UNCHANGED <<processing, thr>>
            ELSE /\ processing' = processing \cup {pid}
                 /\ Frame(Poller, [thr[Poller] EXCEPT !.pc = "poll_plan_create",
                                                      !.pid = pid])
    /\ UNCHANGED <<store, caches, sandboxes, standalone>>

\* Lines 852-863: create_sb succeeding, then generate_implementation_plan
\* with sandbox_ctx=sbx and keep_sandbox=True.
PollPlanCreateSandbox ==
    /\ thr[Poller].pc = "poll_plan_create"
    /\ FreeIds # {}
    /\ sandboxes' = Created(sandboxes, NewId, thr[Poller].pid)
    /\ Frame(Poller, CallGenPlan([thr[Poller] EXCEPT !.sbx = NewId],
                                 NewId, TRUE, FALSE))
    /\ UNCHANGED <<store, caches, processing, rows, standalone>>

\* Lines 859-860: the repo lookup or create_sb raising.
PollPlanCreateSandboxFails ==
    /\ thr[Poller].pc = "poll_plan_create"
    /\ Frame(Poller, [thr[Poller] EXCEPT !.pc = "poll_plan_except"])
    /\ UNCHANGED <<store, caches, processing, sandboxes, rows, standalone>>

\* Lines 864-867 and 874-875: the returned sandbox and context dict are
\* cached; the id leaves _processing.
PollPlanReturned ==
    /\ thr[Poller].op = "poller"
    /\ thr[Poller].pc = "gp_returned"
    /\ sandbox_cache' = [sandbox_cache EXCEPT ![CacheKey(thr[Poller].pid)] =
                             thr[Poller].gp.sbx]
    /\ context_cache' = [context_cache EXCEPT ![CacheKey(thr[Poller].pid)] =
                             [owner |-> thr[Poller].pid, kind |-> "dict"]]
    /\ processing' = processing \ {thr[Poller].pid}
    /\ Frame(Poller, PollerLoop(thr[Poller], "poll_plan_loop"))
    /\ UNCHANGED <<store, sandboxes, rows, standalone>>

\* Lines 868-875: the except block: status FAILED; the id leaves _processing.
PollPlanExcept ==
    /\ thr[Poller].op = "poller"
    /\ thr[Poller].pc \in {"gp_raised", "poll_plan_except"}
    /\ status' = SetStatus(status, thr[Poller].pid, "failed")
    /\ processing' = processing \ {thr[Poller].pid}
    /\ Frame(Poller, PollerLoop(thr[Poller], "poll_plan_loop"))
    /\ UNCHANGED <<hasPlan, hasIssue, caches, sandboxes, rows, standalone>>

\* Lines 877-884: the planning rows are done; the query for executing projects.
PollExecuting ==
    /\ thr[Poller].pc = "poll_plan_loop"
    /\ rows = {}
    /\ rows' = {p \in Projects : status[p] = "executing"}
    /\ Frame(Poller, PollerLoop(thr[Poller], "poll_exec_loop"))
    /\ UNCHANGED <<store, caches, processing, sandboxes, standalone>>

\* Line 888: `if pid in _processing: continue`.
PollGuard(pid) == pid \in processing

\* Lines 885-901: the next row; both caches are popped and the workflow is
\* called.
PollExecNext ==
    /\ thr[Poller].pc = "poll_exec_loop"
    /\ \E pid \in rows :
         /\ rows' = rows \ {pid}
         /\ IF PollGuard(pid)
            THEN UNCHANGED <<processing, thr, caches>>
            ELSE /\ processing' = processing \cup {pid}
                 /\ sandbox_cache' = [sandbox_cache EXCEPT ![CacheKey(pid)] = NoSandbox]
                 /\ context_cache' = [context_cache EXCEPT ![CacheKey(pid)] = NoCtx]
                 /\ Frame(Poller, CallWorkflow(thr[Poller], pid,
                                               sandbox_cache[CacheKey(pid)],
                                               context_cache[CacheKey(pid)]))
    /\ UNCHANGED <<store, sandboxes, standalone>>

\* Lines 902 and 909-910: the workflow returned; the id leaves _processing.
PollExecReturned ==
    /\ thr[Poller].op = "poller"
    /\ thr[Poller].pc = "wf_returned"
    /\ processing' = processing \ {thr[Poller].pid}
    /\ Frame(Poller, PollerLoop(thr[Poller], "poll_exec_loop"))
    /\ UNCHANGED <<store, caches, sandboxes, rows, standalone>>

\* An except path of the executing phase that leaves the id in _processing.
PollExecExceptKeepsGuard ==
    /\ thr[Poller].op = "poller"
    /\ thr[Poller].pc = "wf_raised"
    /\ status' = SetStatus(status, thr[Poller].pid, "failed")
    /\ Frame(Poller, PollerLoop(thr[Poller], "poll_exec_loop"))
    /\ UNCHANGED <<hasPlan, hasIssue, caches, processing, sandboxes, rows, standalone>>

\* Lines 903-910: the workflow raised: status FAILED; the id leaves _processing.
PollExecExcept ==
    /\ thr[Poller].op = "poller"
    /\ thr[Poller].pc = "wf_raised"
    /\ status' = SetStatus(status, thr[Poller].pid, "failed")
    /\ processing' = processing \ {thr[Poller].pid}
    /\ Frame(Poller, PollerLoop(thr[Poller], "poll_exec_loop"))
    /\ UNCHANGED <<hasPlan, hasIssue, caches, sandboxes, rows, standalone>>

\* Line 915: the executing rows are done; the poller sleeps until the next cycle.
PollSleep ==
    /\ thr[Poller].pc = "poll_exec_loop"
    /\ rows = {}
    /\ Frame(Poller, PollerLoop(thr[Poller], "poll_planning"))
    /\ UNCHANGED <<store, caches, processing, sandboxes, rows, standalone>>

PollerStep ==
    \/ PollPlanning \/ PollPlanNext \/ PollPlanCreateSandbox
    \/ PollPlanCreateSandboxFails \/ PollPlanReturned \/ PollPlanExcept
    \/ PollExecuting \/ PollExecNext \/ PollExecReturned \/ PollExecExcept
    \/ PollSleep

(***************************************************************************)
(* The system: the poller thread and the workers serving requests.         *)
(***************************************************************************)
Request(t) ==
    \/ \E p \in Projects : GeneratePlanEndpoint(t, p)
    \/ \E p \in Projects, auto \in BOOLEAN : ApproveProject(t, p, auto)
    \/ \E p \in Projects : ApprovePlan(t, p)
    \/ \E p \in Projects : ExecuteCoder(t, p)

Respond(t) ==
    \/ GeneratePlanEndpointReturn(t)
    \/ ApprovePlanTrigger(t)
    \/ ApprovePlanReturn(t)
    \/ ExecuteCoderReturn(t)

Next ==
    \/ PollerStep
    \/ \E t \in Workers : Request(t)
    \/ \E t \in Workers : Respond(t)
    \/ \E t \in Workers : ApproveProjectSteps(t)
    \/ \E t \in Threads : GenPlan(t)
    \/ \E t \in Threads : Workflow(t)

Spec == Init /\ [][Next]_vars

(***************************************************************************)
(* verify_and_iterate on its own, for every max_iterations and both        *)
(* settings of skip_review.                                                *)
(***************************************************************************)
InitLoop ==
    /\ status = [p \in Projects |-> "pending"]
    /\ hasPlan = [p \in Projects |-> FALSE]
    /\ hasIssue = [p \in Projects |-> FALSE]
    /\ sandbox_cache = [p \in Projects |-> NoSandbox]
    /\ context_cache = [p \in Projects |-> NoCtx]
    /\ processing = {}
    /\ sandboxes = [i \in SandboxIds |-> NoSandboxRec]
    /\ rows = {}
    /\ thr = [t \in Threads |-> IF t = Poller THEN PollerFrame ELSE IdleFrame]
    /\ \E m \in 0..MaxIter, skip \in BOOLEAN, lint \in BOOLEAN, types \in BOOLEAN :
         vi = [ViStart(m, skip) EXCEPT !.lint_issues = lint, !.type_errors = types]
    /\ sb = NoSb
    /\ log_sink = "up"
    /\ ex = NoEx
    /\ dt = NoDt
    /\ rp = NoRp
    /\ passes = NoPasses
    /\ mp = NoMp
    /\ pk = NoPk

LoopVerify ==
    /\ vi.pc = "verify"
    /\ \E tests \in BOOLEAN, build \in BuildOutcomes,
          review \in ReviewChoices(vi.skip_review) :
         vi' = ViVerify(vi, tests, build, review)
    /\ UNCHANGED <<system, sb, log_sink, ex, dt, rp, passes, mp, pk>>

LoopFix ==
    /\ vi.pc = "fix"
    /\ \E ok \in BOOLEAN : vi' = ViFix(vi, ok)
    /\ UNCHANGED <<system, sb, log_sink, ex, dt, rp, passes, mp, pk>>

LoopExhausted ==
    /\ vi.pc = "exhausted"
    /\ vi' = ViExhausted(vi)
    /\ UNCHANGED <<system, sb, log_sink, ex, dt, rp, passes, mp, pk>>

NextLoop == LoopVerify \/ LoopFix \/ LoopExhausted

SpecLoop == InitLoop /\ [][NextLoop]_vars

(***************************************************************************)
(* One invocation of execute_issue_workflow on its own, started the way    *)
(* the approve-plan handler starts it (main.py 262-283): the project is    *)
(* executing, the cached sandbox and context, if any, were popped and      *)
(* passed in.  The log sink may be down.                                   *)
(***************************************************************************)
InitWorkflow ==
    /\ status = [p \in Projects |-> "executing"]
    /\ hasPlan = [p \in Projects |-> TRUE]
    /\ hasIssue = [p \in Projects |-> TRUE]
    /\ sandbox_cache = [p \in Projects |-> NoSandbox]
    /\ context_cache = [p \in Projects |-> NoCtx]
    /\ processing = {}
    /\ rows = {}
    /\ vi = NoLoop
    /\ sb = NoSb
    /\ log_sink \in {"up", "down"}
    /\ ex = NoEx
    /\ dt = NoDt
    /\ rp = NoRp
    /\ passes = NoPasses
    /\ mp = NoMp
    /\ pk = NoPk
    /\ \E p \in Projects, existing \in {NoSandbox, 1}, kind \in {"none", "obj", "dict"} :
         /\ sandboxes = IF existing = NoSandbox
                        THEN [i \in SandboxIds |-> NoSandboxRec]
                        ELSE Created([i \in SandboxIds |-> NoSandboxRec], existing, p)
         /\ thr = [t \in Threads |->
                     IF t = Poller THEN PollerFrame
                     ELSE CallWorkflow([IdleFrame EXCEPT !.op = "approve_plan"], p,
                                       existing,
                                       IF kind = "none" THEN NoCtx
                                       ELSE [owner |-> p, kind |-> kind])]

NextWorkflow == \E t \in Workers : Workflow(t)

SpecWorkflow == InitWorkflow /\ [][NextWorkflow]_vars

(***************************************************************************)
(* verify_and_iterate on one repository, with the detection and the runs   *)
(* of the build and test commands spelled out (testing.py 587-617); the    *)
(* fix prompt and the end of the loop are LoopFix and LoopExhausted.       *)
(***************************************************************************)
InitDetect ==
    /\ status = [p \in Projects |-> "pending"]
    /\ hasPlan = [p \in Projects |-> FALSE]
    /\ hasIssue = [p \in Projects |-> FALSE]
    /\ sandbox_cache = [p \in Projects |-> NoSandbox]
    /\ context_cache = [p \in Projects |-> NoCtx]
    /\ processing = {}
    /\ sandboxes = [i \in SandboxIds |-> NoSandboxRec]
    /\ rows = {}
    /\ thr = [t \in Threads |-> IF t = Poller THEN PollerFrame ELSE IdleFrame]
    /\ sb = NoSb
    /\ log_sink = "up"
    /\ ex = NoEx
    /\ \E m \in 0..MaxIter, skip \in BOOLEAN : vi = ViStart(m, skip)
    /\ \E files \in SUBSET Markers, pkg \in PkgKinds, scripts \in SUBSET Scripts,
          test_command \in Overrides, build_command \in Overrides :
         /\ (pkg # "object" => scripts = {})
         /\ dt = DtStart(files,
                         IF "package.json" \in files THEN pkg ELSE "absent",
                         IF "package.json" \in files THEN scripts ELSE {},
                         test_command, build_command)
    /\ rp = NoRp
    /\ passes = NoPasses
    /\ mp = NoMp
    /\ pk = NoPk

\* Lines 590-592: run_build_verification.
DtBuild ==
    /\ vi.pc = "verify"
    /\ dt.pc = "build"
    /\ LET det == BuildDetection(dt)
       IN  IF det.raised
           THEN /\ dt' = [dt EXCEPT !.pc = "raised"]
                /\ vi' = [vi EXCEPT !.pc = "raised"]
           ELSE /\ \E ok \in BOOLEAN :
                     dt' = [dt EXCEPT !.pc = "tests", !.build = BuildOutcome(det, ok)]
                /\ UNCHANGED vi
    /\ UNCHANGED <<system, sb, log_sink, ex, rp, passes, mp, pk>>

\* Lines 595-597: detect_and_run_tests.
DtTests ==
    /\ vi.pc = "verify"
    /\ dt.pc = "tests"
    /\ LET det == TestDetection(dt)
       IN  IF det.raised
           THEN /\ dt' = [dt EXCEPT !.pc = "raised"]
                /\ vi' = [vi EXCEPT !.pc = "raised"]
           ELSE /\ \E ok \in BOOLEAN :
                     dt' = [dt EXCEPT !.pc = "gate", !.tests = TestOutcome(det, ok)]
                /\ UNCHANGED vi
    /\ UNCHANGED <<system, sb, log_sink, ex, rp, passes, mp, pk>>

\* Lines 604-627: the optional review, then the gate.
DtGate ==
    /\ vi.pc = "verify"
    /\ dt.pc = "gate"
    /\ \E review \in ReviewChoices(vi.skip_review) :
         vi' = ViVerify(vi, dt.tests.passed, BuildSeen(dt.build), review)
    /\ dt' = [dt EXCEPT !.pc = "build"]
    /\ UNCHANGED <<system, sb, log_sink, ex, rp, passes, mp, pk>>

NextDetect == DtBuild \/ DtTests \/ DtGate \/ LoopFix \/ LoopExhausted

SpecDetect == InitDetect /\ [][NextDetect]_vars

(***************************************************************************)
(* One call of run_prompt on its own, for every sequence of at most        *)
(* MaxPromptLines lines.                                                   *)
(***************************************************************************)
PromptInputs ==
    UNION {[1..n -> Lines] : n \in 0..MaxPromptLines}

InitPrompt ==
    /\ status = [p \in Projects |-> "pending"]
    /\ hasPlan = [p \in Projects |-> FALSE]
    /\ hasIssue = [p \in Projects |-> FALSE]
    /\ sandbox_cache = [p \in Projects |-> NoSandbox]
    /\ context_cache = [p \in Projects |-> NoCtx]
    /\ processing = {}
    /\ sandboxes = [i \in SandboxIds |-> NoSandboxRec]
    /\ rows = {}
    /\ thr = [t \in Threads |-> IF t = Poller THEN PollerFrame ELSE IdleFrame]
    /\ vi = NoLoop
    /\ sb = NoSb
    /\ log_sink = "up"
    /\ ex = NoEx
    /\ dt = NoDt
    /\ \E lines \in PromptInputs : rp = RpStart(lines)
    /\ passes = NoPasses
    /\ mp = NoMp
    /\ pk = NoPk

PromptLine ==
    /\ rp.pc = "reading"
    /\ rp.pending # << >>
    /\ rp' = RpLine(rp)
    /\ UNCHANGED <<system, vi, sb, log_sink, ex, dt, passes, mp, pk>>

PromptReturn ==
    /\ rp.pc = "reading"
    /\ rp.pending = << >>
    /\ rp' = RpReturn(rp)
    /\ UNCHANGED <<system, vi, sb, log_sink, ex, dt, passes, mp, pk>>

NextPrompt == PromptLine \/ PromptReturn

SpecPrompt == InitPrompt /\ [][NextPrompt]_vars

(***************************************************************************)
(* MaxPasses verification passes on one unchanged working tree, for every  *)
(* tree and both settings of skip_review.                                  *)
(***************************************************************************)
InitPasses ==
    /\ status = [p \in Projects |-> "pending"]
    /\ hasPlan = [p \in Projects |-> FALSE]
    /\ hasIssue = [p \in Projects |-> FALSE]
    /\ sandbox_cache = [p \in Projects |-> NoSandbox]
    /\ context_cache = [p \in Projects |-> NoCtx]
    /\ processing = {}
    /\ sandboxes = [i \in SandboxIds |-> NoSandboxRec]
    /\ rows = {}
    /\ thr = [t \in Threads |-> IF t = Poller THEN PollerFrame ELSE IdleFrame]
    /\ vi = NoLoop
    /\ sb = NoSb
    /\ log_sink = "up"
    /\ ex = NoEx
    /\ dt = NoDt
    /\ rp = NoRp
    /\ \E tree \in Trees, skip \in BOOLEAN : passes = PassesStart(tree, skip)
    /\ mp = NoMp
    /\ pk = NoPk

PassRun ==
    /\ passes.pc = "pass"
    /\ \E review \in ReviewChoices(passes.skip_review) :
         passes' = PassOnce(passes, review)
    /\ UNCHANGED <<system, vi, sb, log_sink, ex, dt, rp, mp, pk>>

NextPasses == PassRun

SpecPasses == InitPasses /\ [][NextPasses]_vars

(***************************************************************************)
(* The mention poller under every sequence of /start-polling and           *)
(* /stop-polling requests, with mentions being posted meanwhile.           *)
(***************************************************************************)
InitMentions ==
    /\ status = [p \in Projects |-> "pending"]
    /\ hasPlan = [p \in Projects |-> FALSE]
    /\ hasIssue = [p \in Projects |-> FALSE]
    /\ sandbox_cache = [p \in Projects |-> NoSandbox]
    /\ context_cache = [p \in Projects |-> NoCtx]
    /\ processing = {}
    /\ sandboxes = [i \in SandboxIds |-> NoSandboxRec]
    /\ rows = {}
    /\ thr = [t \in Threads |-> IF t = Poller THEN PollerFrame ELSE IdleFrame]
    /\ vi = NoLoop
    /\ sb = NoSb
    /\ log_sink = "up"
    /\ ex = NoEx
    /\ dt = NoDt
    /\ rp = NoRp
    /\ passes = NoPasses
    /\ mp = NoMp
    /\ pk = NoPk

\* GET /start-polling: a new thread is started unless polling_active is set.
StartPolling ==
    /\ ~mp.polling_active
    /\ \E i \in PollThreads :
         /\ mp.threads[i].pc = "unborn"
         /\ \A j \in PollThreads : j < i => mp.threads[j].pc # "unborn"
         /\ mp' = MpStart(mp, i)
    /\ UNCHANGED <<system, vi, sb, log_sink, ex, dt, rp, passes, pk>>

\* GET /stop-polling.
StopPolling ==
    /\ mp.polling_active
    /\ mp' = MpStop(mp)
    /\ UNCHANGED <<system, vi, sb, log_sink, ex, dt, rp, passes, pk>>

\* Somebody mentions the account.
MentionPosted ==
    /\ mp.posted < MaxMentions
    /\ mp' = [mp EXCEPT !.posted = @ + 1]
    /\ UNCHANGED <<system, vi, sb, log_sink, ex, dt, rp, passes, pk>>

\* One step of the poll_mentions thread i.
PollMentions(i) ==
    /\ \/ /\ mp.threads[i].pc = "lookup"
          /\ \E ok \in BOOLEAN : mp' = MpLookup(mp, i, ok)
       \/ /\ mp.threads[i].pc = "check"
          /\ mp' = MpCheck(mp, i)
       \/ /\ mp.threads[i].pc = "query"
          /\ \E ok \in BOOLEAN : mp' = MpQuery(mp, i, ok)
       \/ /\ mp.threads[i].pc = "handle"
          /\ mp' = MpHandle(mp, i)
       \/ /\ mp.threads[i].pc = "sleep"
          /\ mp' = MpSleep(mp, i)
    /\ UNCHANGED <<system, vi, sb, log_sink, ex, dt, rp, passes, pk>>

NextMentions ==
    \/ StartPolling \/ StopPolling \/ MentionPosted
    \/ \E i \in PollThreads : PollMentions(i)

SpecMentions == InitMentions /\ [][NextMentions]_vars

(***************************************************************************)
(* The Poke notifier's loop (poll_and_notify), with projects being created *)
(* and their statuses changed meanwhile.  The loop never blocks, so its    *)
(* steps are weakly fair.                                                  *)
(***************************************************************************)
InitPoke ==
    /\ status = [p \in Projects |-> "pending"]
    /\ hasPlan = [p \in Projects |-> FALSE]
    /\ hasIssue = [p \in Projects |-> FALSE]
    /\ sandbox_cache = [p \in Projects |-> NoSandbox]
    /\ context_cache = [p \in Projects |-> NoCtx]
    /\ processing = {}
    /\ sandboxes = [i \in SandboxIds |-> NoSandboxRec]
    /\ rows = {}
    /\ thr = [t \in Threads |-> IF t = Poller THEN PollerFrame ELSE IdleFrame]
    /\ vi = NoLoop
    /\ sb = NoSb
    /\ log_sink = "up"
    /\ ex = NoEx
    /\ dt = NoDt
    /\ rp = NoRp
    /\ passes = NoPasses
    /\ mp = NoMp
    /\ \E existing \in SUBSET PokeProjects : pk = PkStart(existing)

\* Whether a transient fault may still happen.
PkOutcomes == IF pk.faults < MaxFaults THEN BOOLEAN ELSE {TRUE}

PokeTop ==
    /\ pk.pc = "top"
    /\ pk' = PkTop(pk)
    /\ UNCHANGED <<system, vi, sb, log_sink, ex, dt, rp, passes, mp>>

PokeNewQuery ==
    /\ pk.pc = "new_query"
    /\ \E ok \in PkOutcomes : pk' = PkNewQuery(pk, ok)
    /\ UNCHANGED <<system, vi, sb, log_sink, ex, dt, rp, passes, mp>>

PokeNewRow ==
    /\ pk.pc = "new_rows"
    /\ pk.batch # <<>>
    /\ \E ok \in PkOutcomes : pk' = PkNewRow(pk, ok)
    /\ UNCHANGED <<system, vi, sb, log_sink, ex, dt, rp, passes, mp>>

PokeNewDone ==
    /\ pk.pc = "new_rows"
    /\ pk.batch = <<>>
    /\ pk' = PkNewDone(pk)
    /\ UNCHANGED <<system, vi, sb, log_sink, ex, dt, rp, passes, mp>>

PokeStatusQuery ==
    /\ pk.pc = "status_query"
    /\ \E ok \in PkOutcomes : pk' = PkStatusQuery(pk, ok)
    /\ UNCHANGED <<system, vi, sb, log_sink, ex, dt, rp, passes, mp>>

PokeStatusRow ==
    /\ pk.pc = "status_rows"
    /\ pk.batch # <<>>
    /\ \E ok \in PkOutcomes : pk' = PkStatusRow(pk, ok)
    /\ UNCHANGED <<system, vi, sb, log_sink, ex, dt, rp, passes, mp>>

PokeStatusDone ==
    /\ pk.pc = "status_rows"
    /\ pk.batch = <<>>
    /\ pk' = PkStatusDone(pk)
    /\ UNCHANGED <<system, vi, sb, log_sink, ex, dt, rp, passes, mp>>

PokeEnd ==
    /\ pk.pc = "end"
    /\ pk' = PkEnd(pk)
    /\ UNCHANGED <<system, vi, sb, log_sink, ex, dt, rp, passes, mp>>

ProjectCreated ==
    /\ \E p \in PokeProjects :
         /\ pk.table[p] = "absent"
         /\ pk' = PkCreate(pk, p)
    /\ UNCHANGED <<system, vi, sb, log_sink, ex, dt, rp, passes, mp>>

StatusChanged ==
    /\ pk.changes < MaxChanges
    /\ \E p \in PokeProjects, s \in PokeStatuses :
         /\ pk.table[p] \notin {"absent", s}
         /\ pk' = PkChange(pk, p, s)
    /\ UNCHANGED <<system, vi, sb, log_sink, ex, dt, rp, passes, mp>>

PokeStep ==
    \/ PokeTop \/ PokeNewQuery \/ PokeNewRow \/ PokeNewDone \/ PokeStatusQuery
    \/ PokeStatusRow \/ PokeStatusDone \/ PokeEnd

NextPoke == PokeStep \/ ProjectCreated \/ StatusChanged

SpecPoke == InitPoke /\ [][NextPoke]_vars /\ WF_vars(PokeStep)


(***************************************************************************)
(* One command execution on its own.  The timeout parameter is read by no  *)
(* statement of either function, and LocalSandbox.exec                     *)
(* (local_sandbox.py 99-111) starts subprocess.Popen without one: the only *)
(* thing that ends a silent process is the Modal VM reaching its own       *)
(* lifetime (modal_sandbox.py 104, 140).                                   *)
(***************************************************************************)
InitExec ==
    /\ status = [p \in Projects |-> "pending"]
    /\ hasPlan = [p \in Projects |-> FALSE]
    /\ hasIssue = [p \in Projects |-> FALSE]
    /\ sandbox_cache = [p \in Projects |-> NoSandbox]
    /\ context_cache = [p \in Projects |-> NoCtx]
    /\ processing = {}
    /\ sandboxes = [i \in SandboxIds |-> NoSandboxRec]
    /\ rows = {}
    /\ thr = [t \in Threads |-> IF t = Poller THEN PollerFrame ELSE IdleFrame]
    /\ vi = NoLoop
    /\ sb = NoSb
    /\ log_sink = "up"
    /\ \E fn \in ExecFunctions, mode \in SandboxModes, hang \in BOOLEAN,
          lines \in 0..MaxLines, rc \in {0, 1} :
         ex = ExStart(fn, mode, hang, lines, rc)
    /\ dt = NoDt
    /\ rp = NoRp
    /\ passes = NoPasses
    /\ mp = NoMp
    /\ pk = NoPk

\* sandbox.exec("bash", "-c", cmd).
ExecSpawn ==
    /\ ex.pc = "exec"
    /\ ex' = [ex EXCEPT !.pc = "stdout"]
    /\ UNCHANGED <<system, vi, sb, log_sink, dt, rp, passes, mp, pk>>

\* process.stdout.read() / for line in process.stdout: one more line arrives.
ExecReadLine ==
    /\ ex.pc = "stdout"
    /\ ex.lines > 0
    /\ ex' = [ex EXCEPT !.lines = ex.lines - 1, !.out = ex.out + 1]
    /\ UNCHANGED <<system, vi, sb, log_sink, dt, rp, passes, mp, pk>>

\* End of the stream: the process has terminated and closed its stdout.
ExecEOF ==
    /\ ex.pc = "stdout"
    /\ ex.lines = 0
    /\ ~ex.hang
    /\ ex' = [ex EXCEPT !.pc = "wait"]
    /\ UNCHANGED <<system, vi, sb, log_sink, dt, rp, passes, mp, pk>>

\* process.stderr.read(); process.wait(); the return code is examined.
ExecWait ==
    /\ ex.pc = "wait"
    /\ ex' = ExWait(ex)
    /\ UNCHANGED <<system, vi, sb, log_sink, dt, rp, passes, mp, pk>>

\* Time passes while the caller is blocked reading from a silent process.
\* Nothing reads the clock past the VM's lifetime, so it is not advanced
\* further; the caller stays blocked in the read.
ExecTick ==
    /\ ex.pc = "stdout"
    /\ ex.lines = 0
    /\ ex.hang
    /\ ex.clock < SandboxTtl
    /\ ex' = [ex EXCEPT !.clock = ex.clock + ExecTimeout]
    /\ UNCHANGED <<system, vi, sb, log_sink, dt, rp, passes, mp, pk>>

\* The Modal VM reaches its lifetime and is terminated with its processes.
ExecSandboxTimeout ==
    /\ ex.pc = "stdout"
    /\ ex.mode = "modal"
    /\ ex.hang
    /\ ex.clock >= SandboxTtl
    /\ ex' = [ex EXCEPT !.hang = FALSE, !.rc = 1]
    /\ UNCHANGED <<system, vi, sb, log_sink, dt, rp, passes, mp, pk>>

NextExec ==
    \/ ExecSpawn \/ ExecReadLine \/ ExecEOF \/ ExecWait \/ ExecTick
    \/ ExecSandboxTimeout

\* The process and the clock keep going: no step that can be taken is
\* postponed forever.
SpecExec == InitExec /\ [][NextExec]_vars /\ WF_vars(NextExec)

(***************************************************************************)
(* create_sandbox followed by cleanup_sandbox on their own, for both       *)
(* backends.                                                               *)
(***************************************************************************)
InitSandbox ==
    /\ status = [p \in Projects |-> "pending"]
    /\ hasPlan = [p \in Projects |-> FALSE]
    /\ hasIssue = [p \in Projects |-> FALSE]
    /\ sandbox_cache = [p \in Projects |-> NoSandbox]
    /\ context_cache = [p \in Projects |-> NoCtx]
    /\ processing = {}
    /\ sandboxes = [i \in SandboxIds |-> NoSandboxRec]
    /\ rows = {}
    /\ thr = [t \in Threads |-> IF t = Poller THEN PollerFrame ELSE IdleFrame]
    /\ vi = NoLoop
    /\ \E mode \in SandboxModes, leftover, token \in BOOLEAN :
         /\ (mode = "modal" => ~leftover)
         /\ sb = SbStart(mode, leftover, token)
    /\ log_sink = "up"
    /\ ex = NoEx
    /\ dt = NoDt
    /\ rp = NoRp
    /\ passes = NoPasses
    /\ mp = NoMp
    /\ pk = NoPk

SandboxAllocate ==
    /\ sb.pc = "create"
    /\ \E ok \in BOOLEAN : sb' = SbAllocate(sb, ok)
    /\ UNCHANGED <<system, vi, log_sink, ex, dt, rp, passes, mp, pk>>

SandboxSetup ==
    /\ sb.pc = "setup"
    /\ \E ok \in BOOLEAN : sb' = SbSetup(sb, ok)
    /\ UNCHANGED <<system, vi, log_sink, ex, dt, rp, passes, mp, pk>>

SandboxExcept ==
    /\ sb.pc = "except"
    /\ sb' = SbExcept(sb)
    /\ UNCHANGED <<system, vi, log_sink, ex, dt, rp, passes, mp, pk>>

SandboxCleanup ==
    /\ sb.pc = "created"
    /\ \E ok \in BOOLEAN : sb' = SbCleanup(sb, ok)
    /\ UNCHANGED <<system, vi, log_sink, ex, dt, rp, passes, mp, pk>>

NextSandbox ==
    SandboxAllocate \/ SandboxSetup \/ SandboxExcept \/ SandboxCleanup

SpecSandbox == InitSandbox /\ [][NextSandbox]_vars

(***************************************************************************)
(* Properties.                                                             *)
(***************************************************************************)
InWorkflow(t) == thr[t].pc \in WfActive
WorkflowSeen(t) == thr[t].pc \in WfActive \cup WfEnded

\* C1: at no reachable state are two invocations of execute_issue_workflow
\* active for the same project id, whatever entry point started them.
C1_OneWorkflowPerProject ==
    \A t1, t2 \in Threads :
        (t1 # t2 /\ InWorkflow(t1) /\ InWorkflow(t2)) => thr[t1].pid # thr[t2].pid

\* C2: every invocation of execute_issue_workflow that has returned or
\* raised has called cleanup_sandbox exactly once.
C2_CleanupExactlyOnce ==
    \A t \in Threads : thr[t].pc \in WfEnded => thr[t].wf.cleanups = 1

\* C3: whenever execute_issue_workflow has ended by raising, the project's
\* status is failed and the invocation has written an ERROR step log.
C3_FatalErrorMarksFailed ==
    \A t \in Threads :
        thr[t].pc = "wf_raised" =>
            (status[thr[t].pid] = "failed" /\ thr[t].wf.errLogged)

\* C4: a run of verify_and_iterate in which no pass satisfied the gate has
\* sent max_iterations - 1 fix prompts when it returns.
C4_ExhaustedFixCount ==
    (vi.pc = "returned" /\ vi.passedAt = 0) => vi.fixes = vi.max_iterations - 1

\* C4 (amended): a run of verify_and_iterate that returns after no pass
\* satisfied the gate has sent exactly max_iterations fix prompts, one after
\* every failed pass, the last one included.
C4_ExhaustedFixCountAmended ==
    (vi.pc = "returned" /\ vi.passedAt = 0) =>
        /\ vi.fixes = vi.max_iterations
        /\ vi.verifies = vi.max_iterations

\* A run with max_iterations = 3 returned after three failed passes.
C4_Witness ==
    /\ vi.pc = "returned"
    /\ vi.passedAt = 0
    /\ vi.max_iterations = 3
    /\ vi.verifies = 3

\* C5: in a workflow run whose first verification pass satisfies the gate,
\* the coding session receives exactly one prompt, the verifier runs exactly
\* once and no fix prompt is sent.
C5_FirstPassNoFix ==
    \A t \in Threads :
        (WorkflowSeen(t) /\ thr[t].wf.vi.passedAt = 1) =>
            /\ thr[t].wf.prompts = 1
            /\ thr[t].wf.vi.verifies = 1
            /\ thr[t].wf.vi.fixes = 0

\* A workflow returned success after its first pass satisfied the gate.
C5_Witness ==
    \E t \in Threads :
        /\ thr[t].pc = "wf_returned"
        /\ thr[t].wf.outcome = "success"
        /\ thr[t].wf.vi.passedAt = 1

\* C6: when the gate is first satisfied at iteration k, verify_and_iterate
\* has returned at once with success and the report of iteration k, after
\* exactly k verification passes and k - 1 fix prompts, with k <= max_iterations.
C6_SuccessAtFirstPassingIteration ==
    vi.passedAt >= 1 =>
        /\ vi.pc = "returned"
        /\ vi.success
        /\ vi.report = vi.last
        /\ vi.report.iteration = vi.passedAt
        /\ vi.verifies = vi.passedAt
        /\ vi.fixes = vi.passedAt - 1
        /\ vi.passedAt <= vi.max_iterations

\* max_iterations = 3, the build fails at iteration 1 and passes at iteration 2:
\* success after exactly one fix prompt.
C6_Witness ==
    /\ vi.pc = "returned"
    /\ vi.max_iterations = 3
    /\ vi.passedAt = 2
    /\ vi.report.build = "ok"
    /\ vi.fixes = 1

\* C7: for every max_iterations, verify_and_iterate runs at most
\* max_iterations verification passes and ends by returning a pair: it
\* never ends by raising.
C7_ReturnsAPair ==
    /\ vi.verifies <= vi.max_iterations
    /\ vi.pc # "raised"

\* C8: once a project's status is completed or failed, no step changes it.
C8_TerminalStatusesStay ==
    [][\A p \in Projects :
          status[p] \in {"completed", "failed"} => status'[p] = status[p]]_vars

Rank(s) ==
    CASE s = "pending" -> 0
      [] s = "planning" -> 1
      [] s = "provisioning" -> 2
      [] s = "executing" -> 3
      [] OTHER -> 4

\* C9: among the non-terminal statuses a project only moves forward:
\* no step takes it from executing back to provisioning or planning, nor
\* from provisioning back to planning.
C9_ForwardOnly ==
    [][\A p \in Projects :
          (Rank(status[p]) < 4 /\ Rank(status'[p]) < 4)
              => Rank(status[p]) <= Rank(status'[p])]_vars

\* C10: every entry of the sandbox cache and of the context cache is stored
\* under the project it was created for, and every sandbox and context a
\* workflow invocation was handed or runs in was created for its project.
C10_SandboxStaysWithItsProject ==
    /\ \A k \in Projects :
         /\ sandbox_cache[k] # NoSandbox => sandboxes[sandbox_cache[k]].owner = k
         /\ context_cache[k] # NoCtx => context_cache[k].owner = k
    /\ \A t \in Threads :
         WorkflowSeen(t) =>
            /\ thr[t].wf.existing # NoSandbox
                  => sandboxes[thr[t].wf.existing].owner = thr[t].pid
            /\ thr[t].wf.sbx # NoSandbox
                  => sandboxes[thr[t].wf.sbx].owner = thr[t].pid
            /\ thr[t].wf.ctx # NoCtx => thr[t].wf.ctx.owner = thr[t].pid

\* A workflow runs in a sandbox it took from the cache while the cache
\* holds a sandbox of another project.
C10_Witness ==
    \E t \in Threads, k \in Projects :
        /\ InWorkflow(t)
        /\ thr[t].wf.existing # NoSandbox
        /\ thr[t].wf.sbx = thr[t].wf.existing
        /\ k # thr[t].pid
        /\ sandbox_cache[k] # NoSandbox

(***************************************************************************)
(* Working trees.  The local backend keeps the tree of a sandbox in        *)
(* base_dir = /tmp/treehacks-sandbox-{project_id}: the directory is named  *)
(* by the project alone, create_sandbox removes it if it exists and        *)
(* cleanup_sandbox removes it.                                             *)
(***************************************************************************)
base_dir(id) == sandboxes[id].owner

\* The live sandboxes thread t is working in.
Using(t) ==
    {i \in SandboxIds :
        /\ sandboxes[i].state = "alive"
        /\ i \in {thr[t].sbx, thr[t].gp.sbx, thr[t].wf.sbx}}

\* A live sandbox is held when it is parked in the cache or a thread works in it.
Held(i) ==
    /\ sandboxes[i].state = "alive"
    /\ \/ \E k \in Projects : sandbox_cache[k] = i
       \/ \E t \in Threads : i \in Using(t)

\* C11: no two threads work in the same sandbox, and no two held sandboxes
\* have the same working tree: a tree that a running step or the cache holds
\* is never replaced by a create_sandbox nor shared with another holder.
C11_WorkingTreeNotShared ==
    /\ \A t1, t2 \in Threads : t1 # t2 => Using(t1) \cap Using(t2) = {}
    /\ \A i, j \in SandboxIds :
         (i # j /\ Held(i) /\ Held(j)) => base_dir(i) # base_dir(j)

\* C12: every live sandbox is either parked in the sandbox cache under the
\* project it was created for or still in the hands of the step working in
\* it: no entry point finishes leaving a sandbox it created neither cleaned
\* up nor cached, and no store into the cache drops a live sandbox.
C12_NoSandboxLeftBehind ==
    \A i \in SandboxIds :
        sandboxes[i].state = "alive" =>
            /\ Held(i)
            /\ \A k \in Projects : sandbox_cache[k] = i => sandboxes[i].owner = k

\* C13: whenever create_sandbox has raised SandboxError, the resource it had
\* allocated (the Modal VM, the local base_dir) has been torn down.
C13_FailedCreateTearsDown ==
    (sb.pc = "raised" /\ sb.error = "SandboxError") => ~sb.allocated

C15_LogFailureIsHarmless ==
    \A t \in Threads :
        (thr[t].pc \in WfEnded /\ thr[t].wf.logFailed) =>
            /\ thr[t].wf.cause # "log"
            /\ (thr[t].wf.sbx # NoSandbox => thr[t].wf.cleanups = 1)
            /\ (thr[t].wf.outcome = "raised" => status[thr[t].pid] = "failed")

\* C16: every command execution in a sandbox eventually returns or raises,
\* also when the external process never terminates.
C16_ExecutionEnds == <>(ex.pc \in {"returned", "raised"})

\* C17: after every verification pass, the pass satisfied the gate if and
\* only if the tests passed, and no build step was detected or the build
\* exited with 0, and review is disabled or the review score is at least 80;
\* whether the repository has lint issues or type errors plays no part.
C17_GateIffTestsBuildReview ==
    vi.verifies >= 1 =>
        (vi.passedAt = vi.verifies <=>
            /\ vi.last.tests
            /\ vi.last.build \in {"none", "ok"}
            /\ (vi.skip_review \/ vi.last.review >= 80))

\* A pass with no build step and a review score of exactly 80 satisfied the
\* gate in a repository that has lint issues and type errors.
C17_Witness ==
    /\ vi.pc = "returned"
    /\ vi.passedAt = vi.verifies
    /\ vi.verifies >= 1
    /\ ~vi.skip_review
    /\ vi.last.review = 80
    /\ vi.last.build = "none"
    /\ vi.lint_issues
    /\ vi.type_errors

\* The marker groups in the order each function tests them, with the command
\* each group stands for (for package.json: when the script exists).
TestMarkerOrder ==
    << {"pytest.ini", "setup.py", "pyproject.toml"}, {"package.json"},
       {"go.mod"}, {"Cargo.toml"} >>
TestCommands == << "pytest -v", "npm test", "go test ./...", "cargo test" >>
BuildMarkerOrder == << {"package.json"}, {"setup.py"}, {"go.mod"}, {"Cargo.toml"} >>
BuildCommands ==
    << "npm run build", "python setup.py build", "go build ./...", "cargo build" >>

\* The first group of the order with a file at the root, 0 when there is none.
FirstMatch(order) ==
    LET m == {k \in 1..Len(order) : order[k] \cap dt.files # {}}
    IN  IF m = {} THEN 0 ELSE CHOOSE k \in m : \A j \in m : k <= j

\* The command the first matching group decides on.
MarkerCommand(order, commands, script) ==
    LET k == FirstMatch(order)
    IN  IF k = 0 THEN "None"
        ELSE IF order[k] = {"package.json"}
                /\ ~(dt.pkg = "object" /\ script \in dt.scripts)
        THEN "None"
        ELSE commands[k]

\* The build, respectively the tests, of the current pass have run.
BuildDone == dt.pc \in {"tests", "gate"}
TestsDone == dt.pc = "gate"

\* C19: a configured override command is the command run for its category
\* whatever marker files exist; without an override the first matching marker
\* in the category's fixed order decides the command.
C19_OverrideThenFirstMarker ==
    /\ BuildDone =>
         dt.build.command = IF dt.build_command \notin {"None", ""}
                            THEN dt.build_command
                            ELSE MarkerCommand(BuildMarkerOrder, BuildCommands, "build")
    /\ TestsDone =>
         dt.tests.command = IF dt.test_command \notin {"None", ""}
                            THEN dt.test_command
                            ELSE MarkerCommand(TestMarkerOrder, TestCommands, "test")

\* The test override ran although pytest.ini and go.mod exist, and with no
\* build override the build of a root holding package.json (with a build
\* script), setup.py and go.mod was npm run build.
C19_Witness ==
    /\ TestsDone
    /\ dt.test_command = "make check"
    /\ dt.tests.command = "make check"
    /\ {"pytest.ini", "go.mod", "package.json", "setup.py"} \subseteq dt.files
    /\ dt.build_command = "None"
    /\ dt.build.command = "npm run build"

\* No marker file at the root and no override command in the repo config.
NoManifest ==
    /\ dt.files = {}
    /\ dt.test_command \notin {"make check"}
    /\ dt.build_command \notin {"make check"}

\* C18: for a repository with no recognized manifest and no override
\* commands, every verification pass reports the tests as passed with no
\* command run and the build as absent, and no fix prompt is sent.
C18_NoManifestNoFixPrompt ==
    NoManifest =>
        /\ (BuildDone => dt.build.none)
        /\ (TestsDone => dt.tests.passed /\ dt.tests.command = "None")
        /\ (vi.verifies >= 1 => vi.last.tests /\ vi.last.build = "none")
        /\ vi.fixes = 0

\* C18 (amended): for such a repository every pass reports the tests as
\* passed with no command run and the build as absent; the first pass
\* satisfies the gate and no fix prompt is sent when review is disabled; with
\* review enabled a pass satisfies the gate when its score is at least 80,
\* and a fix prompt follows only a pass whose review score is below 80.
C18_NoManifestNoFixPromptAmended ==
    NoManifest =>
        /\ (BuildDone => dt.build.none)
        /\ (TestsDone => dt.tests.passed /\ dt.tests.command = "None")
        /\ (vi.verifies >= 1 => vi.last.tests /\ vi.last.build = "none")
        /\ (vi.skip_review => vi.fixes = 0)
        /\ (vi.verifies >= 1 /\ vi.last.review >= 80 =>
                vi.passedAt = vi.verifies /\ vi.fixes = vi.verifies - 1)
        /\ (vi.pc = "fix" => ~vi.skip_review /\ vi.last.review < 80)

\* A repository with no manifest passed its only verification pass with
\* review disabled: tests vacuously passed, build absent, no fix prompt.
C18_Witness ==
    /\ NoManifest
    /\ vi.pc = "returned"
    /\ vi.skip_review
    /\ vi.passedAt = 1
    /\ vi.fixes = 0
    /\ dt.tests.passed
    /\ dt.tests.command = "None"
    /\ dt.build.none

\* The steps from the commit to the completion of the workflow.
CommitSteps == {"wf_commit", "wf_push", "wf_pr", "wf_record_pr", "wf_complete"}

\* C20: the workflow reaches commit, push and PR creation only when a
\* verification pass satisfied the gate; when the loop returned without one,
\* the invocation ends with the result failed and the project failed.
C20_CommitOnlyWhenGateSatisfied ==
    \A t \in Threads :
        /\ (thr[t].pc \in CommitSteps => thr[t].wf.vi.passedAt >= 1)
        /\ (/\ thr[t].pc \in WfEnded
            /\ thr[t].wf.vi.pc = "returned"
            /\ thr[t].wf.vi.passedAt = 0)
           => (thr[t].wf.outcome = "failed" /\ status[thr[t].pid] = "failed")

C22_PromptToleratesEveryLine == rp.pc # "raised"

\* C23: neither exec_in_sandbox nor run_prompt returns normally when the
\* process ended with a non-zero exit code.
C23_NonZeroExitIsAnError == ex.pc = "returned" => ex.rc = 0

\* The lines of the input that are text events, and what is left of the
\* input without its blank lines.
TextEvents ==
    SelectSeq(rp.input, LAMBDA l : l.json = "object" /\ l.type = "text")
TextData == [i \in 1..Len(TextEvents) |-> TextEvents[i].data]
NonBlank == SelectSeq(rp.input, LAMBDA l : l.json # "blank")

\* C28: run_prompt returns the text of the last text event when the process
\* emitted one, and the raw output lines when it emitted none.
C28_ReturnsLastTextEvent ==
    rp.pc = "returned" =>
        rp.result = IF TextEvents = << >> THEN NonBlank
                    ELSE << TextData[Len(TextData)] >>

\* C28 (amended): run_prompt returns the texts of all text events, in the
\* order emitted and joined with newlines, when the process emitted at least
\* one, and the raw non-blank output lines when it emitted none.
C28_ReturnsAllTextEvents ==
    rp.pc = "returned" =>
        rp.result = IF TextEvents = << >> THEN NonBlank ELSE TextData

\* A call that read two text events returned both texts.
C28_Witness ==
    /\ rp.pc = "returned"
    /\ Len(TextEvents) = 2
    /\ rp.result = << "a", "b" >>

\* C24: with a budget of at least one pass, no error arising inside
\* verify_and_iterate (a failing test or build command, a failure of the
\* fix-prompt call) is raised out of it.
C24_LoopErrorsAreCaught == vi.max_iterations >= 1 => vi.pc # "raised"

\* The side-effecting steps of a workflow invocation, in the order of the
\* code, and the pc at which each one starts.
StepOrder ==
    << "sandbox", "executing", "implement", "verify", "commit", "push", "pr",
       "pr_recorded", "completed" >>
StepPc ==
    << "wf_sandbox", "wf_executing", "wf_implement", "wf_verify", "wf_commit",
       "wf_push", "wf_pr", "wf_record_pr", "wf_complete" >>

\* C25: within one workflow invocation a side-effecting step has returned
\* only if the step before it in the fixed order has returned, and it starts
\* only after that step returned without raising: no push without a
\* successful commit, no PR without a successful push, no completed status
\* without a created and recorded PR.
C25_StepsInFixedOrder ==
    \A t \in Threads : \A k \in 2..Len(StepOrder) :
        /\ StepOrder[k] \in thr[t].wf.done => StepOrder[k-1] \in thr[t].wf.done
        /\ thr[t].pc = StepPc[k] => StepOrder[k-1] \in thr[t].wf.done

\* An invocation returned success after all nine steps.
C25_Witness ==
    \E t \in Threads :
        /\ thr[t].pc = "wf_returned"
        /\ thr[t].wf.outcome = "success"
        /\ thr[t].wf.done = {StepOrder[k] : k \in 1..Len(StepOrder)}

\* The pcs whose step writes the status together with an execution-log event:
\* the two endpoints (main.py 133-134 and 248-249), approve_project (396-402),
\* generate_implementation_plan's PROVISIONING write (791-796), and the
\* workflow's EXECUTING, verification-failed, COMPLETED and FAILED writes
\* (coder.py 301-302, 336-342, 402-405, 419-425).
LoggedStatusWrites ==
    { "idle", "ap_planning", "gp_store", "wf_executing", "wf_verify",
      "wf_complete", "wf_except" }

\* C26: every change of a project's status is made by a step that also
\* writes an execution-log event for that project.
C26_StatusChangeIsLogged ==
    [][\A p \in Projects :
          status'[p] # status[p] =>
              \E t \in Threads :
                  /\ thr'[t] # thr[t]
                  /\ p \in {thr[t].pid, thr'[t].pid}
                  /\ thr[t].pc \in LoggedStatusWrites]_vars

\* C27: every iteration of the loop produces exactly one verification report,
\* and the report verify_and_iterate returns is the report of its last pass,
\* with the same test, build and review outcomes, whether the gate was
\* satisfied or the budget was exhausted.
C27_ReturnedReportIsLastPass ==
    /\ vi.last.iteration = vi.verifies
    /\ vi.pc = "returned" => vi.report = vi.last

\* C29: two verification passes on the same unchanged sandbox state with the
\* same repository configuration yield the same gate outcome.
C29_GateIsStable ==
    \A i, j \in 1..Len(passes.gates) : passes.gates[i] = passes.gates[j]

\* C30: whenever a project's status is completed or failed and no thread is
\* still working on the project, the sandbox cache and the context cache hold
\* no entry for it and no sandbox created for it is alive.
C30_EvictedAtWorkflowEnd ==
    \A p \in Projects :
        (status[p] \in {"completed", "failed"} /\ \A t \in Threads : thr[t].pid # p) =>
            /\ sandbox_cache[CacheKey(p)] = NoSandbox
            /\ context_cache[CacheKey(p)] = NoCtx
            /\ \A i \in SandboxIds :
                 sandboxes[i].owner = p => sandboxes[i].state # "alive"

\* C31: while the approve handler, called with auto_generate_plan, has set
\* its project to planning and is caching its sandbox or generating the plan
\* itself, the poller is not handling the same project: it creates no second
\* sandbox and no second plan for that planning phase.
C31_OnePlannerPerApproval ==
    \A t \in Workers :
        ( /\ thr[t].op = "approve_project"
          /\ thr[t].auto
          /\ thr[t].pc \notin {"ap_create", "ap_detect", "ap_planning",
                               "ap_except", "ap_finally"} )
        => thr[Poller].pid # thr[t].pid

\* C32: every executing project eventually reaches completed or failed, and
\* once a project is completed or failed the poller does not start the coder
\* workflow for it again.  This is the second half: no step of the poller
\* calls execute_issue_workflow for a project whose status is completed or
\* failed.
C32_NoWorkflowAfterTerminal ==
    [][( /\ thr[Poller].pc = "poll_exec_loop"
         /\ thr'[Poller].pc = "wf_start" )
       => status[thr'[Poller].pid] \notin {"completed", "failed"}]_vars

\* C33: _processing holds at most one project id, the one the poller is
\* handling, and it is empty whenever the poller is between two rows or at
\* the start of a poll cycle: the id added for a row is removed again before
\* the next row is handled, after a return and after an exception.
C33_GuardSetIsEmptiedPerRow ==
    /\ Cardinality(processing) <= 1
    /\ processing # {} => processing = {thr[Poller].pid}
    /\ thr[Poller].pc \in {"poll_planning", "poll_plan_loop", "poll_exec_loop"}
          => processing = {}

\* The poller is between two rows of the executing phase, after a workflow
\* it ran has failed, with the guard set empty and a row still to handle.
C33_Witness ==
    /\ thr[Poller].pc = "poll_exec_loop"
    /\ rows # {}
    /\ processing = {}
    /\ \E p \in Projects : status[p] = "failed" /\ p \notin rows

\* C34: with no override command, whenever the repository root holds a
\* Python project marker, go.mod or Cargo.toml, detect_and_run_tests has a
\* test command to run and does not report the tests as vacuously passed,
\* whatever other marker files exist.
C34_LanguageMarkerGivesTestCommand ==
    ( /\ TestsDone
      /\ ~Truthy(dt.test_command)
      /\ dt.files \cap {"pytest.ini", "setup.py", "pyproject.toml", "go.mod",
                        "Cargo.toml"} # {} )
    => dt.tests.command # "None"

\* C35: after execute_issue_workflow has returned or raised, the
\* coder_sessions record it inserted as active is completed or failed, and it
\* is completed only if the PR was created.
C35_NoSessionLeftActive ==
    \A t \in Threads :
        thr[t].pc \in WfEnded =>
            /\ thr[t].wf.session # "active"
            /\ thr[t].wf.session = "completed" => "pr" \in thr[t].wf.done

\* C36: after any sequence of /start-polling and /stop-polling requests at
\* most one poll_mentions thread is inside the polling loop, and no mention
\* is processed twice.
C36_OnePollingThread ==
    /\ Cardinality({i \in PollThreads : mp.threads[i].pc \in {"query", "handle"}}) <= 1
    /\ \A m \in Mentions : mp.processed[m] <= 1

\* C37: every project created after the notifier started eventually has its
\* new-project notification delivered, given that only finitely many sends
\* fail and no query of the projects table fails.
C37_NewProjectEventuallyNotified ==
    \A p \in PokeProjects :
        (p \in pk.created) ~> (p \in pk.new_notified \/ pk.qfault)

\* C38: poll_status_changes advances the tracked status of a project only in
\* the step that sent the notification for the change, and to the status
\* that was notified; a failed send leaves the tracked status unchanged; a
\* notification is sent only for a row whose status differs from the tracked
\* one, so a change that was notified is not notified again.
C38_TrackedAdvancesAfterSend ==
    [][\A p \in PokeProjects :
          /\ (pk.tracked[p] # "none" /\ pk'.tracked[p] # pk.tracked[p])
                => pk'.sent[p] = pk.sent[p] + 1
          /\ pk'.sent[p] # pk.sent[p]
                => /\ pk'.sent[p] = pk.sent[p] + 1
                   /\ Head(pk.batch).id = p
                   /\ Head(pk.batch).status # pk.tracked[p]
                   /\ pk'.tracked[p] = Head(pk.batch).status
          /\ pk'.faults # pk.faults => pk'.sent = pk.sent]_vars

\* A status change was notified after the one transient fault had happened,
\* and the tracked status has caught up with the table.
C38_Witness ==
    \E p \in PokeProjects :
        /\ pk.sent[p] = 1
        /\ pk.faults = MaxFaults
        /\ pk.tracked[p] = pk.table[p]
        /\ pk.tracked[p] # "pending"

=============================================================================
